---- MODULE Spec2Model ----
(***************************************************************************)
(* Order store gateway (server/mongo/insert_orders.py) and order query     *)
(* service (server/api/orders_route.py) over one MongoDB collection.       *)
(*                                                                         *)
(* Conventions of the model                                                *)
(*   - Optional[T]: None is the empty set {}, a supplied value v is {v}.   *)
(*   - money is counted in cents, so rounding to 2 decimals is rounding to *)
(*     an integer; the $round of MongoDB rounds half to even.              *)
(*   - order_completed_at, start_date and end_date are day numbers counted *)
(*     from Monday 2024-01-01 (day 0).                                     *)
(*   - a store name is a sequence of one-character strings.                *)
(*   - a location is <<longitude, latitude>> on a grid of 100 m steps and  *)
(*     distances are compared through their squares.                       *)
(*   - a stored document carries the fields the query service reads.       *)
(***************************************************************************)
EXTENDS Integers, Sequences, FiniteSets, TLC

VARIABLES
    coll,       \* the documents of the collection restaurant_stats.orders
    indexes,    \* the names of the indexes of the collection (besides _id)
    nextId,     \* how many ObjectIds the driver has generated so far
    resp,       \* the outcome of the operation that ran last, until delivered
    gen,        \* the loop of main() of generate_doordash_orders.py
    job,        \* one order on its way through generate_order, transform_order
    knot,       \* one call of the Knot proxy and what it sent upstream
    scrape      \* the loop of main() of the catalog builders

vars == <<coll, indexes, nextId, resp, gen, job, knot, scrape>>

(***************************************************************************)
(* Bounds                                                                  *)
(***************************************************************************)
\* documents handed to insert_orders over all its runs
MaxDocs == 3
\* filters one request supplies at the same time
MaxFilters == 2

(***************************************************************************)
(* Small helpers                                                           *)
(***************************************************************************)
Min(a, b) == IF a <= b THEN a ELSE b
Max(a, b) == IF a >= b THEN a ELSE b
Range(s) == {s[i] : i \in DOMAIN s}

\* Python truthiness of an Optional[str]: None and "" are both falsy
TruthyStr(x) == x # {} /\ x # {""}
\* the same for a text kept as a sequence of characters
TruthyText(x) == x # {} /\ x # {<<>>}
\* a datetime is always truthy, so only None is falsy
TruthyDate(x) == x # {}

RECURSIVE SumOf(_, _)
SumOf(S, f) ==
    IF S = {} THEN 0
    ELSE LET x == CHOOSE y \in S : TRUE IN f[x] + SumOf(S \ {x}, f)

\* $round to the nearest cent of num / den (num >= 0, den > 0), half to even
RoundDiv(num, den) ==
    LET q == num \div den
        r == num % den
    IN  IF 2 * r < den THEN q
        ELSE IF 2 * r > den THEN q + 1
        ELSE IF q % 2 = 0 THEN q ELSE q + 1

(***************************************************************************)
(* The orders that the transform stage can hand to insert_orders.          *)
(***************************************************************************)
Pool == <<
    [order_key |-> "k1", user_id |-> "u1", status |-> "COMPLETED",
     store_name |-> <<"A", "b">>, order_completed_at |-> 363,
     total |-> 5, tax |-> 1, tip |-> 1,
     ship_loc |-> <<0, 0>>, store_loc |-> <<3, 4>>],
    [order_key |-> "k2", user_id |-> "", status |-> "",
     store_name |-> <<"a", ".">>, order_completed_at |-> 364,
     total |-> 6, tax |-> 0, tip |-> 2,
     ship_loc |-> <<3, 4>>, store_loc |-> <<0, 0>>],
    [order_key |-> "k1", user_id |-> "u2", status |-> "COMPLETED",
     store_name |-> <<"b">>, order_completed_at |-> 370,
     total |-> 0, tax |-> 0, tip |-> 0,
     ship_loc |-> <<30, 41>>, store_loc |-> <<3, 4>> ] >>

RECURSIVE SeqsUpTo(_, _)
SeqsUpTo(S, n) ==
    IF n = 0 THEN {<<>>}
    ELSE LET shorter == SeqsUpTo(S, n - 1)
         IN  shorter \cup {Append(s, x) : s \in shorter, x \in S}

(***************************************************************************)
(* MongoDB collection: writes                                              *)
(***************************************************************************)
ORDER_KEY_INDEX == "order_key_1"

\* the index set of insert_orders, in creation order
IndexSpecs == <<
    ORDER_KEY_INDEX,
    "shipping_address.location_2dsphere",
    "store.address.location_2dsphere",
    "user_id_1",
    "order_completed_at_1",
    "status_1" >>

\* the server accepts a document unless it breaks the _id index or, if it
\* exists, the unique index on order_key
StoreAccepts(c, idx, d) ==
    /\ \A e \in c : e._id # d._id
    /\ ORDER_KEY_INDEX \in idx => \A e \in c : e.order_key # d.order_key

\* collection.insert_many(batch, ordered=False): every document is tried,
\* errors counts the write errors (> 0 means BulkWriteError is raised)
RECURSIVE insert_many(_, _, _)
insert_many(c, idx, batch) ==
    IF batch = <<>> THEN [coll |-> c, n |-> 0, errors |-> 0]
    ELSE LET d == Head(batch)
             ok == StoreAccepts(c, idx, d)
             r == insert_many(IF ok THEN c \cup {d} ELSE c, idx, Tail(batch))
         IN  [coll |-> r.coll,
              n |-> r.n + (IF ok THEN 1 ELSE 0),
              errors |-> r.errors + (IF ok THEN 0 ELSE 1)]

\* the fallback loop: collection.insert_one(doc) for each doc of the batch,
\* counting the calls that do not raise; failed lists the documents of the
\* "Failed to insert order" lines, in the order they are printed
RECURSIVE insert_one_by_one(_, _, _)
insert_one_by_one(c, idx, batch) ==
    IF batch = <<>> THEN [coll |-> c, n |-> 0, failed |-> <<>>]
    ELSE LET d == Head(batch)
             ok == StoreAccepts(c, idx, d)
             r == insert_one_by_one(IF ok THEN c \cup {d} ELSE c, idx, Tail(batch))
         IN  [coll |-> r.coll, n |-> r.n + (IF ok THEN 1 ELSE 0),
              failed |-> (IF ok THEN <<>> ELSE <<d>>) \o r.failed]

\* one batch: `inserted' grows by len(result.inserted_ids) only when
\* insert_many returns; when it raises the fallback runs over the whole batch
insert_batch(c, idx, batch) ==
    LET r == insert_many(c, idx, batch)
    IN  IF r.errors = 0 THEN [coll |-> r.coll, n |-> r.n, failed |-> <<>>]
        ELSE insert_one_by_one(r.coll, idx, batch)

\* for i in range(0, total, batch_size): batch = orders[i:i + batch_size]
RECURSIVE insert_batches(_, _, _, _)
insert_batches(c, idx, docs, batch_size) ==
    IF docs = <<>> THEN [coll |-> c, n |-> 0, failed |-> <<>>]
    ELSE LET k == Min(batch_size, Len(docs))
             b == insert_batch(c, idx, SubSeq(docs, 1, k))
             r == insert_batches(b.coll, idx, SubSeq(docs, k + 1, Len(docs)), batch_size)
         IN  [coll |-> r.coll, n |-> b.n + r.n, failed |-> b.failed \o r.failed]

\* collection.create_index(name): building the unique index fails when two
\* documents share an order_key; an index that exists is left as it is
CreateIndexFails(c, idx, name) ==
    /\ name = ORDER_KEY_INDEX
    /\ name \notin idx
    /\ \E d, e \in c : d # e /\ d.order_key = e.order_key

\* the try block of insert_orders: the first create_index that raises ends it
RECURSIVE create_indexes(_, _, _)
create_indexes(c, idx, names) ==
    IF names = <<>> THEN idx
    ELSE IF CreateIndexFails(c, idx, Head(names)) THEN idx
    ELSE create_indexes(c, idx \cup {Head(names)}, Tail(names))

\* whether one of the create_index calls of the try block raises
index_error(c, idx, names) ==
    ~(Range(names) \subseteq create_indexes(c, idx, names))

\* the try block without its except clause: the error of create_index leaves
\* insert_orders
index_phase_returns_without_except(error) == ~error

\* except Exception as e: the error is printed and insert_orders goes on to
\* `return inserted'
index_phase_returns(error) == TRUE

\* the driver gives every document of the list a fresh ObjectId in place
WithIds(orders, first) ==
    [i \in DOMAIN orders |->
        [_id |-> [oid |-> first + i]] @@ orders[i]]

(***************************************************************************)
(* MongoDB collection: reads                                               *)
(***************************************************************************)
Lower(ch) == IF ch = "A" THEN "a" ELSE IF ch = "B" THEN "b" ELSE ch

\* {"$regex": pattern, "$options": "i"}: the pattern is a regular
\* expression searched anywhere in the text; "." stands for any character
RegexSearch(pattern, text) ==
    \E pos \in 1..(Len(text) - Len(pattern) + 1) :
        \A i \in 1..Len(pattern) :
            \/ pattern[i] = "."
            \/ Lower(pattern[i]) = Lower(text[pos + i - 1])

\* a query document without clauses, {}
EmptyQuery ==
    [user_id |-> {}, status |-> {}, store_name_regex |-> {},
     completed_gte |-> {}, completed_lte |-> {},
     total_gte |-> {}, total_lte |-> {}]

\* the clauses of one query document are a conjunction
Matches(d, q) ==
    /\ \A v \in q.user_id : d.user_id = v
    /\ \A v \in q.status : d.status = v
    /\ \A p \in q.store_name_regex : RegexSearch(p, d.store_name)
    /\ \A v \in q.completed_gte : d.order_completed_at >= v
    /\ \A v \in q.completed_lte : d.order_completed_at <= v
    /\ \A v \in q.total_gte : d.total >= v
    /\ \A v \in q.total_lte : d.total <= v

Find(c, q) == {d \in c : Matches(d, q)}

count_documents(c, q) == Cardinality(Find(c, q))

\* cursor.sort(key, -1): every order of S that is descending in key; the
\* order among documents with equal keys is the server's choice
RECURSIVE SortedDesc(_, _)
SortedDesc(S, key) ==
    IF S = {} THEN {<<>>}
    ELSE LET top == {x \in S : \A y \in S : key[x] >= key[y]}
         IN  UNION {{<<x>> \o t : t \in SortedDesc(S \ {x}, key)} : x \in top}

CompletedAt(S) == [d \in S |-> d.order_completed_at]

\* cursor.skip(skip).limit(limit)
SkipLimit(s, skip, limit) == SubSeq(s, skip + 1, Min(skip + limit, Len(s)))

(***************************************************************************)
(* Order query service: requests and validation                            *)
(***************************************************************************)
MAX_PAGE_SIZE == 100

Pages == {0, 1, 2}
PageSizes == {0, 1, 2, MAX_PAGE_SIZE, MAX_PAGE_SIZE + 1}
OptUserIds == {{}, {""}, {"u1"}}
OptStatuses == {{}, {""}, {"COMPLETED"}}
StoreNameTexts == {<<"a">>, <<".">>, <<"B">>}
OptStoreNames == {{}} \cup {{t} : t \in StoreNameTexts}
OptDates == {{}, {364}}
OptMinTotals == {{}, {-1}, {0}, {6}}
OptMaxTotals == {{}, {-1}, {5}}

FilterNames ==
    {"user_id", "status", "store_name", "start_date", "end_date",
     "min_total", "max_total"}

Supplied(req) == {f \in FilterNames : req[f] # {}}

\* the query parameters of GET /orders and of GET /orders/stats/summary
FilterRequests ==
    {req \in [user_id : OptUserIds, status : OptStatuses,
              store_name : OptStoreNames,
              start_date : OptDates, end_date : OptDates,
              min_total : OptMinTotals, max_total : OptMaxTotals] :
        Cardinality(Supplied(req)) <= MaxFilters}

Paging == [page : Pages, page_size : PageSizes]

\* Query(1, ge=1)
ValidPage(page) == page >= 1
\* a slip in the validation: the cap of the page size left out
ValidPageSizeUncapped(page_size) == page_size >= 1

\* Query(20, ge=1, le=100)
ValidPageSize(page_size) == page_size >= 1 /\ page_size <= MAX_PAGE_SIZE
\* Query(None, ge=0)
ValidTotal(x) == \A v \in x : v >= 0

NoResp == [op |-> "none"]

\* a request that fails validation is answered 422 by the framework and the
\* handler body, which alone reaches the store, does not run
Rejected(op, req) ==
    [op |-> op, req |-> req, status |-> 422, accessed |-> FALSE]

ObjectIdStr(id) == [hex |-> id.oid]

convert_objectid_to_str(doc) == [doc EXCEPT !._id = ObjectIdStr(doc._id)]

Converted(s) == [i \in DOMAIN s |-> convert_objectid_to_str(s[i])]

\* a slip in the skip: the page number taken as 0-based
SkipOffByOnePage(page, page_size) == page * page_size

\* skip = (page - 1) * page_size
Skip(page, page_size) == (page - 1) * page_size

\* the body shared by the list operations: count, then find, sort, skip, limit
ListResponses(op, req, c, q) ==
    {[op |-> op, req |-> req, status |-> 200, accessed |-> TRUE,
      orders |-> Converted(SkipLimit(s, Skip(req.page, req.page_size), req.page_size)),
      total |-> count_documents(c, q),
      page |-> req.page, page_size |-> req.page_size] :
        s \in SortedDesc(Find(c, q), CompletedAt(c))}

(***************************************************************************)
(* GET /orders                                                             *)
(***************************************************************************)
get_orders_query(req) ==
    [user_id |-> IF TruthyStr(req.user_id) THEN req.user_id ELSE {},
     status |-> IF TruthyStr(req.status) THEN req.status ELSE {},
     store_name_regex |-> IF TruthyText(req.store_name) THEN req.store_name ELSE {},
     completed_gte |-> IF TruthyDate(req.start_date) THEN req.start_date ELSE {},
     completed_lte |-> IF TruthyDate(req.end_date) THEN req.end_date ELSE {},
     total_gte |-> req.min_total,
     total_lte |-> req.max_total]

get_orders_valid(req) ==
    /\ ValidPage(req.page)
    /\ ValidPageSize(req.page_size)
    /\ ValidTotal(req.min_total)
    /\ ValidTotal(req.max_total)

get_orders ==
    /\ resp = NoResp
    /\ \E f \in FilterRequests, p \in Paging :
        LET req == f @@ p IN
        IF ~get_orders_valid(req)
        THEN resp' = Rejected("get_orders", req)
        ELSE resp' \in ListResponses("get_orders", req, coll, get_orders_query(req))
    /\ UNCHANGED <<coll, indexes, nextId, gen, job, knot, scrape>>

(***************************************************************************)
(* GET /orders/{order_key}                                                 *)
(***************************************************************************)
OrderKeys == {"k1", "k2", "k9"}

\* a slip in the lookup: find_one_and_delete in the place of find_one
get_order_by_key_and_delete ==
    /\ resp = NoResp
    /\ \E order_key \in OrderKeys :
        LET found == {d \in coll : d.order_key = order_key}
            req == [order_key |-> order_key]
        IN  IF found = {}
            THEN /\ resp' = [op |-> "get_order_by_key", req |-> req,
                             status |-> 404, accessed |-> TRUE]
                 /\ coll' = coll
            ELSE \E d \in found :
                    /\ resp' = [op |-> "get_order_by_key", req |-> req,
                                status |-> 200, accessed |-> TRUE,
                                order |-> convert_objectid_to_str(d)]
                    /\ coll' = coll \ {d}
    /\ UNCHANGED <<indexes, nextId, gen, job, knot, scrape>>

\* find_one returns some matching document, or None
get_order_by_key ==
    /\ resp = NoResp
    /\ \E order_key \in OrderKeys :
        LET found == {d \in coll : d.order_key = order_key}
            req == [order_key |-> order_key]
        IN  IF found = {}
            THEN resp' = [op |-> "get_order_by_key", req |-> req,
                          status |-> 404, accessed |-> TRUE]
            ELSE \E d \in found :
                    resp' = [op |-> "get_order_by_key", req |-> req,
                             status |-> 200, accessed |-> TRUE,
                             order |-> convert_objectid_to_str(d)]
    /\ UNCHANGED <<coll, indexes, nextId, gen, job, knot, scrape>>

(***************************************************************************)
(* GET /orders/user/{user_id} and GET /orders/store/{store_name}           *)
(***************************************************************************)
PathUserIds == {"u1", "u2", "u9"}

paging_valid(req) == ValidPage(req.page) /\ ValidPageSize(req.page_size)

get_orders_by_user ==
    /\ resp = NoResp
    /\ \E user_id \in PathUserIds, p \in Paging :
        LET req == [user_id |-> user_id] @@ p IN
        IF ~paging_valid(req)
        THEN resp' = Rejected("get_orders_by_user", req)
        ELSE resp' \in ListResponses("get_orders_by_user", req, coll,
                                     [EmptyQuery EXCEPT !.user_id = {user_id}])
    /\ UNCHANGED <<coll, indexes, nextId, gen, job, knot, scrape>>

get_orders_by_store ==
    /\ resp = NoResp
    /\ \E store_name \in StoreNameTexts, p \in Paging :
        LET req == [store_name |-> store_name] @@ p IN
        IF ~paging_valid(req)
        THEN resp' = Rejected("get_orders_by_store", req)
        ELSE resp' \in ListResponses("get_orders_by_store", req, coll,
                                     [EmptyQuery EXCEPT !.store_name_regex = {store_name}])
    /\ UNCHANGED <<coll, indexes, nextId, gen, job, knot, scrape>>

(***************************************************************************)
(* GET /orders/stats/summary                                               *)
(***************************************************************************)
Totals(S) == [d \in S |-> d.total]
Taxes(S) == [d \in S |-> d.tax]
Tips(S) == [d \in S |-> d.tip]

\* a slip in the summary query: the end_date clause left out
get_order_stats_query_no_end(req) ==
    [EmptyQuery EXCEPT
        !.user_id = IF TruthyStr(req.user_id) THEN req.user_id ELSE {},
        !.store_name_regex = IF TruthyText(req.store_name) THEN req.store_name ELSE {},
        !.completed_gte = IF TruthyDate(req.start_date) THEN req.start_date ELSE {}]

\* the handler declares user_id, store_name, start_date and end_date; any
\* other query parameter of the request is not read
get_order_stats_query(req) ==
    [EmptyQuery EXCEPT
        !.user_id = IF TruthyStr(req.user_id) THEN req.user_id ELSE {},
        !.store_name_regex = IF TruthyText(req.store_name) THEN req.store_name ELSE {},
        !.completed_gte = IF TruthyDate(req.start_date) THEN req.start_date ELSE {},
        !.completed_lte = IF TruthyDate(req.end_date) THEN req.end_date ELSE {}]

\* a slip in the summary pipeline: total_tips summed over price.tax
summary_pipeline_tips_from_tax(c, q) ==
    LET S == Find(c, q) IN
    IF S = {} THEN <<>>
    ELSE << [total_orders |-> Cardinality(S),
             total_revenue |-> SumOf(S, Totals(S)),
             average_order_value |-> RoundDiv(SumOf(S, Totals(S)), Cardinality(S)),
             total_tax |-> SumOf(S, Taxes(S)),
             total_tips |-> SumOf(S, Taxes(S)),
             unique_users |-> Cardinality({d.user_id : d \in S}),
             unique_restaurants |-> Cardinality({d.store_name : d \in S})] >>

\* $match, $group with _id None, $project: no document in, no document out
summary_pipeline(c, q) ==
    LET S == Find(c, q) IN
    IF S = {} THEN <<>>
    ELSE << [total_orders |-> Cardinality(S),
             total_revenue |-> SumOf(S, Totals(S)),
             average_order_value |-> RoundDiv(SumOf(S, Totals(S)), Cardinality(S)),
             total_tax |-> SumOf(S, Taxes(S)),
             total_tips |-> SumOf(S, Tips(S)),
             unique_users |-> Cardinality({d.user_id : d \in S}),
             unique_restaurants |-> Cardinality({d.store_name : d \in S})] >>

ZeroStats ==
    [total_orders |-> 0, total_revenue |-> 0, average_order_value |-> 0,
     total_tax |-> 0, total_tips |-> 0, unique_users |-> 0,
     unique_restaurants |-> 0]

get_order_stats ==
    /\ resp = NoResp
    /\ \E req \in FilterRequests :
        LET result == summary_pipeline(coll, get_order_stats_query(req)) IN
        resp' = [op |-> "get_order_stats", req |-> req, status |-> 200,
                 accessed |-> TRUE,
                 stats |-> IF result = <<>> THEN ZeroStats ELSE result[1]]
    /\ UNCHANGED <<coll, indexes, nextId, gen, job, knot, scrape>>

(***************************************************************************)
(* GET /orders/stats/by-restaurant                                         *)
(***************************************************************************)
MAX_LIMIT == 50

Limits == {0, 1, 2, MAX_LIMIT, MAX_LIMIT + 1}

\* Query(10, ge=1, le=50)
ValidLimit(limit) == limit >= 1 /\ limit <= MAX_LIMIT

date_range_query(req) ==
    [EmptyQuery EXCEPT
        !.completed_gte = IF TruthyDate(req.start_date) THEN req.start_date ELSE {},
        !.completed_lte = IF TruthyDate(req.end_date) THEN req.end_date ELSE {}]

\* $group by store.name, then $project
restaurant_rows(S) ==
    {LET G == {d \in S : d.store_name = name} IN
        [restaurant_name |-> name,
         total_orders |-> Cardinality(G),
         total_revenue |-> SumOf(G, Totals(G)),
         average_order_value |-> RoundDiv(SumOf(G, Totals(G)), Cardinality(G)),
         total_tax |-> SumOf(G, Taxes(G)),
         total_tips |-> SumOf(G, Tips(G))] : name \in {d.store_name : d \in S}}

Revenue(rows) == [r \in rows |-> r.total_revenue]

\* a slip in the pipeline: $limit placed before $sort
top_restaurants_limit_first(rows, limit) ==
    UNION {SortedDesc(kept, Revenue(rows)) :
            kept \in {k \in SUBSET rows : Cardinality(k) = Min(limit, Cardinality(rows))}}

\* {"$sort": {"total_revenue": -1}}, {"$limit": limit}
top_restaurants(rows, limit) ==
    {SubSeq(s, 1, Min(limit, Len(s))) : s \in SortedDesc(rows, Revenue(rows))}

get_stats_by_restaurant ==
    /\ resp = NoResp
    /\ \E limit \in Limits, start_date \in OptDates, end_date \in OptDates :
        LET req == [limit |-> limit, start_date |-> start_date, end_date |-> end_date] IN
        IF ~ValidLimit(limit)
        THEN resp' = Rejected("get_stats_by_restaurant", req)
        ELSE \E rows \in top_restaurants(
                    restaurant_rows(Find(coll, date_range_query(req))), limit) :
                resp' = [op |-> "get_stats_by_restaurant", req |-> req,
                         status |-> 200, accessed |-> TRUE, rows |-> rows]
    /\ UNCHANGED <<coll, indexes, nextId, gen, job, knot, scrape>>

(***************************************************************************)
(* GET /orders/stats/by-date                                               *)
(***************************************************************************)
\* calendar of the day numbers 0..727: 2024-01-01 (a Monday) to 2025-12-28
CalYear(n) == IF n < 366 THEN 2024 ELSE 2025
DayOfYear(n) == IF n < 366 THEN n ELSE n - 366
MonthLengths(y) ==
    <<31, IF y = 2024 THEN 29 ELSE 28, 31, 30, 31, 30, 31, 31, 30, 31, 30, 31>>

RECURSIVE MonthFrom(_, _, _)
MonthFrom(y, m, rest) ==
    IF rest < MonthLengths(y)[m] THEN <<m, rest + 1>>
    ELSE MonthFrom(y, m + 1, rest - MonthLengths(y)[m])

CalMonth(n) == MonthFrom(CalYear(n), 1, DayOfYear(n))[1]
CalDay(n) == MonthFrom(CalYear(n), 1, DayOfYear(n))[2]

\* %V, the ISO 8601 week number: weeks run Monday to Sunday; the ISO year
\* 2024 has 52 weeks, so day 364 (Monday 2024-12-30) opens week 1 of 2025
IsoWeek(n) == IF n < 364 THEN n \div 7 + 1 ELSE (n - 364) \div 7 + 1

\* $dateToString with the format of date_format_map: the fields of the
\* label in the order they are printed, each zero padded to a fixed width
DateToString(group_by, n) ==
    IF group_by = "week" THEN <<CalYear(n), IsoWeek(n)>>
    ELSE IF group_by = "month" THEN <<CalYear(n), CalMonth(n)>>
    ELSE <<CalYear(n), CalMonth(n), CalDay(n)>>

GroupBys == {"day", "week", "month", "year"}

\* Query("day", regex="^(day|week|month)$")
ValidGroupBy(group_by) == group_by \in {"day", "week", "month"}

\* the order of two labels of one format as strings
LabelLess(a, b) ==
    \E i \in DOMAIN a :
        /\ a[i] < b[i]
        /\ \A j \in 1..(i - 1) : a[j] = b[j]

date_rows(S, group_by) ==
    {LET G == {d \in S : DateToString(group_by, d.order_completed_at) = label} IN
        [date |-> label,
         total_orders |-> Cardinality(G),
         total_revenue |-> SumOf(G, Totals(G)),
         average_order_value |-> RoundDiv(SumOf(G, Totals(G)), Cardinality(G))] :
            label \in {DateToString(group_by, d.order_completed_at) : d \in S}}

\* a slip in the $sort stage: {"date": -1}
RECURSIVE SortedByDateDescending(_)
SortedByDateDescending(rows) ==
    IF rows = {} THEN <<>>
    ELSE LET first == CHOOSE r \in rows :
                        \A o \in rows \ {r} : LabelLess(o.date, r.date)
         IN  <<first>> \o SortedByDateDescending(rows \ {first})

\* {"$sort": {"date": 1}}; the labels of the rows are pairwise different
RECURSIVE SortedByDate(_)
SortedByDate(rows) ==
    IF rows = {} THEN <<>>
    ELSE LET first == CHOOSE r \in rows :
                        \A o \in rows \ {r} : LabelLess(r.date, o.date)
         IN  <<first>> \o SortedByDate(rows \ {first})

get_stats_by_date ==
    /\ resp = NoResp
    /\ \E group_by \in GroupBys, start_date \in OptDates, end_date \in OptDates :
        LET req == [group_by |-> group_by, start_date |-> start_date,
                    end_date |-> end_date] IN
        IF ~ValidGroupBy(group_by)
        THEN resp' = Rejected("get_stats_by_date", req)
        ELSE resp' = [op |-> "get_stats_by_date", req |-> req,
                      status |-> 200, accessed |-> TRUE,
                      rows |-> SortedByDate(
                          date_rows(Find(coll, date_range_query(req)), group_by))]
    /\ UNCHANGED <<coll, indexes, nextId, gen, job, knot, scrape>>

(***************************************************************************)
(* GET /orders/nearby/orders                                               *)
(***************************************************************************)
\* max_distance_km, ge=0.1 and le=100.0, in steps of 100 m
MIN_DISTANCE == 1
MAX_DISTANCE == 1000

Centers == {<<0, 0>>}
Distances == {0, MIN_DISTANCE, 50, MAX_DISTANCE, MAX_DISTANCE + 1}

ValidDistance(max_distance) ==
    max_distance >= MIN_DISTANCE /\ max_distance <= MAX_DISTANCE

\* the square of the distance of two points
Dist2(a, b) ==
    (a[1] - b[1]) * (a[1] - b[1]) + (a[2] - b[2]) * (a[2] - b[2])

\* location_field = "shipping_address.location" if use_shipping else ...
LocationOf(d, use_shipping) == IF use_shipping THEN d.ship_loc ELSE d.store_loc

GeoIndexOf(use_shipping) ==
    IF use_shipping THEN "shipping_address.location_2dsphere"
    ELSE "store.address.location_2dsphere"

\* {location_field: {"$near": {"$geometry": center, "$maxDistance": m}}}
FindNear(c, center, max_distance, use_shipping) ==
    {d \in c : Dist2(LocationOf(d, use_shipping), center) <= max_distance * max_distance}

ServerError(op, req) ==
    [op |-> op, req |-> req, status |-> 500, accessed |-> TRUE]

\* The server answers $near only through a 2dsphere index on the field.
\* count_documents runs the query as the $match stage of an aggregation,
\* where MongoDB refuses $near; a store that accepts it there is covered as
\* well. The explicit sort of the cursor replaces the distance order of $near.
get_orders_nearby ==
    /\ resp = NoResp
    /\ \E center \in Centers, max_distance \in Distances, p \in Paging,
          use_shipping \in BOOLEAN :
        LET req == [longitude |-> center[1], latitude |-> center[2],
                    max_distance_km |-> max_distance,
                    use_shipping |-> use_shipping] @@ p
            near == FindNear(coll, center, max_distance, use_shipping)
        IN  IF ~(ValidDistance(max_distance) /\ paging_valid(req))
            THEN resp' = Rejected("get_orders_nearby", req)
            ELSE IF GeoIndexOf(use_shipping) \notin indexes
            THEN resp' = ServerError("get_orders_nearby", req)
            ELSE \/ resp' = ServerError("get_orders_nearby", req)
                 \/ \E s \in SortedDesc(near, CompletedAt(coll)) :
                        resp' = [op |-> "get_orders_nearby", req |-> req,
                                 status |-> 200, accessed |-> TRUE,
                                 orders |-> Converted(SkipLimit(
                                     s, Skip(req.page, req.page_size), req.page_size)),
                                 total |-> Cardinality(near),
                                 page |-> req.page, page_size |-> req.page_size]
    /\ UNCHANGED <<coll, indexes, nextId, gen, job, knot, scrape>>

(***************************************************************************)
(* insert_orders                                                           *)
(***************************************************************************)
BATCH_SIZE == 100

BatchSizes == {2, BATCH_SIZE}

\* main() calls insert_orders with a list that is not empty
insert_orders ==
    /\ resp = NoResp
    /\ \E orders \in SeqsUpTo(Range(Pool), MaxDocs - nextId) \ {<<>>},
          batch_size \in BatchSizes :
        LET docs == WithIds(orders, nextId)
            r == insert_batches(coll, indexes, docs, batch_size)
        IN  /\ coll' = r.coll
            /\ indexes' = create_indexes(r.coll, indexes, IndexSpecs)
            /\ nextId' = nextId + Len(orders)
            /\ resp' = [op |-> "insert_orders", orders |-> docs,
                        batch_size |-> batch_size, inserted |-> r.n,
                        failed |-> r.failed,
                        returned |-> IF index_phase_returns(
                                            index_error(r.coll, indexes, IndexSpecs))
                                     THEN {r.n} ELSE {},
                        before |-> coll, indexes_before |-> indexes]
    /\ UNCHANGED <<gen, job, knot, scrape>>

(***************************************************************************)
(* GET /mongo-data/                                                        *)
(***************************************************************************)
\* list(collection.find({})) with every _id converted; the order of the
\* list is the server's and no reader of the model depends on it
get_data ==
    /\ resp = NoResp
    /\ resp' = [op |-> "get_data", status |-> 200, accessed |-> TRUE,
                data |-> {convert_objectid_to_str(d) : d \in Find(coll, EmptyQuery)}]
    /\ UNCHANGED <<coll, indexes, nextId, gen, job, knot, scrape>>

\* the caller has the outcome; the next operation may start
Deliver ==
    /\ resp # NoResp
    /\ resp' = NoResp
    /\ UNCHANGED <<coll, indexes, nextId, gen, job, knot, scrape>>

\* the generator and the transformation are scripts of their own: while the
\* store and the query service run, they are not running
NoBatch == [pc |-> "off"]
NoJob == [stage |-> "off"]
NoCall == [pc |-> "off"]
NoScrape == [pc |-> "off"]

EmptyStore ==
    /\ coll = {}
    /\ indexes = {}
    /\ nextId = 0
    /\ resp = NoResp

Init ==
    /\ EmptyStore
    /\ gen = NoBatch
    /\ job = NoJob
    /\ knot = NoCall
    /\ scrape = NoScrape

Next ==
    \/ insert_orders
    \/ get_orders
    \/ get_order_by_key
    \/ get_orders_by_user
    \/ get_orders_by_store
    \/ get_order_stats
    \/ get_stats_by_restaurant
    \/ get_stats_by_date
    \/ get_orders_nearby
    \/ get_data
    \/ Deliver

Spec == Init /\ [][Next]_vars

(***************************************************************************)
(* generate_doordash_orders.py: the restaurant catalog                     *)
(*                                                                         *)
(*   - in the generator and the transformation every amount is counted in  *)
(*     tenths of a cent, so that round(x, 2) is a real rounding;           *)
(*   - a key of a JSON object that may be absent is Optional as above: {}  *)
(*     when absent (or null), {v} when present with the value v;           *)
(*   - a value whose type matters carries it in the field kind.            *)
(***************************************************************************)
\* a menu item written as free text
TextItem(text) == [kind |-> "str", name |-> {}, unitPrice |-> {}]
\* a menu item written as an object; name and unitPrice may be absent
ObjectItem(name, unitPrice) ==
    [kind |-> "dict", name |-> name, unitPrice |-> unitPrice]

ListOf(items) == [kind |-> "list", items |-> items]
NullValue == [kind |-> "null", items |-> <<>>]
TextValue == [kind |-> "str", items |-> <<>>]

\* the value of the key menus: absent, null, a list, or a mapping
NoMenus(kind) == [kind |-> kind, cats |-> <<>>]
MenusOf(cats) == [kind |-> "dict", cats |-> cats]

\* restaurant_database_mcp.json as load_restaurants() returns it; an address
\* is kept as the parts that split(", ") cuts it into
Catalog == <<
    [restaurant |-> {"Thai Village"},
     address |-> {<<"235 Nassau St", "Princeton", "NJ 08540">>},
     menus |-> MenusOf(
        [Dinner |-> ListOf(<<ObjectItem({"Pad Thai"}, {12990}),
                             TextItem("Soup of the day"),
                             ObjectItem({"Tea"}, {125})>>),
         Lunch  |-> ListOf(<<ObjectItem({}, {5000}),
                             ObjectItem({"Rolls"}, {0}),
                             ObjectItem({""}, {700}),
                             ObjectItem({"Curry"}, {})>>)])],
    [restaurant |-> {"Null Menus"},
     address |-> {<<"1 Palmer Sq", "Princeton", "NJ 08542">>},
     menus |-> NoMenus("null")],
    [restaurant |-> {},
     address |-> {},
     menus |-> NoMenus("missing")],
    [restaurant |-> {"List Menus"},
     address |-> {<<"2 Palmer Sq", "Princeton", "NJ 08542">>},
     menus |-> NoMenus("list")],
    [restaurant |-> {"Free Text Only"},
     address |-> {<<"3 Palmer Sq", "Princeton", "NJ 08542">>},
     menus |-> MenusOf(
        [Dinner |-> ListOf(<<TextItem("Burger"), ObjectItem({}, {900})>>),
         Lunch  |-> ListOf(<<ObjectItem({"Fries"}, {})>>),
         Drinks |-> NullValue])],
    [restaurant |-> {"Morning Cafe"},
     address |-> {<<"4 Palmer Sq", "Princeton", "NJ 08542">>},
     menus |-> MenusOf(
        [Breakfast |-> ListOf(<<ObjectItem({"Eggs"}, {5000})>>),
         Dinner    |-> TextValue])],
    [restaurant |-> {"Juice Bar"},
     address |-> {<<"5 Palmer Sq", "Princeton", "NJ">>},
     menus |-> MenusOf(
        [Drinks |-> ListOf(<<ObjectItem({"Juice"}, {4500})>>)])] >>

RECURSIVE SeqSum(_)
SeqSum(s) == IF s = <<>> THEN 0 ELSE Head(s) + SeqSum(Tail(s))

RECURSIVE Flatten(_)
Flatten(ss) == IF ss = <<>> THEN <<>> ELSE Head(ss) \o Flatten(Tail(ss))

(***************************************************************************)
(* select_menu_items                                                       *)
(***************************************************************************)
CATEGORIES == <<"Dinner", "Lunch", "Drinks">>

\* menus = restaurant.get("menus", {}); if not isinstance(menus, dict): {}
menus_dict(restaurant) ==
    IF restaurant.menus.kind = "dict" THEN restaurant.menus.cats ELSE <<>>

\* category in menus and menus[category] and isinstance(menus[category], list)
category_items(menus, category) ==
    IF /\ category \in DOMAIN menus
       /\ menus[category].kind = "list"
       /\ menus[category].items # <<>>
    THEN menus[category].items ELSE <<>>

all_items(restaurant) ==
    Flatten([i \in DOMAIN CATEGORIES |->
                category_items(menus_dict(restaurant), CATEGORIES[i])])

\* isinstance(item, dict) and item.get("name") and
\* item.get("unitPrice") is not None
is_valid_item(item) ==
    /\ item.kind = "dict"
    /\ TruthyStr(item.name)
    /\ item.unitPrice # {}

valid_items(restaurant) == SelectSeq(all_items(restaurant), is_valid_item)

\* random.randint(2, 5)
MIN_ITEMS == 2
MAX_ITEMS == 5
\* random.randint(1, 3)
MAX_QUANTITY == 3
Quantities == 1..MAX_QUANTITY

\* random.sample(population, k): k different positions in a random order
Samples(n, k) ==
    {s \in [1..k -> 1..n] : \A i, j \in 1..k : i # j => s[i] # s[j]}

\* round(x, 2) of an amount in tenths of a cent, half to even
TENTHS_PER_CENT == 10
Round2(x) == RoundDiv(x, TENTHS_PER_CENT) * TENTHS_PER_CENT

\* round(unit_price * quantity, 2)
line_total(unit_price, quantity) == Round2(unit_price * quantity)

ValueOf(opt) == CHOOSE v \in opt : TRUE

\* the product line of one selected item; an item that is no object or
\* lacks its name or price is skipped a second time here
product_lines(item, quantity) ==
    IF item.kind # "dict" \/ ~TruthyStr(item.name) \/ item.unitPrice = {}
    THEN <<>>
    ELSE << [name |-> item.name,
             quantity |-> {quantity},
             price |-> {[unitPrice |-> item.unitPrice,
                         total |-> {line_total(ValueOf(item.unitPrice), quantity)}]},
             orderStatus |-> {"COMPLETED"}] >>

\* every list of products the function can return for the restaurant
select_menu_items(restaurant) ==
    LET valid == valid_items(restaurant)
        n == Len(valid)
    IN  IF all_items(restaurant) = <<>> \/ valid = <<>> THEN {<<>>}
        ELSE UNION {
                {Flatten([i \in 1..Len(sample) |->
                            product_lines(valid[sample[i]], quantity[i])]) :
                    sample \in Samples(n, Min(num_items, n)),
                    quantity \in [1..Min(num_items, n) -> Quantities]} :
                num_items \in MIN_ITEMS..MAX_ITEMS}

(***************************************************************************)
(* calculate_pricing                                                       *)
(***************************************************************************)
\* random.uniform(0.06, 0.08), (0.10, 0.20) and (0.03, 0.05), in percent
TaxRates == {6, 8}
TipRates == {10, 20}
\* random.random() < 0.3 decides whether a service fee is added
ServiceFeeRates == {{}, {3}, {5}}

\* round(subtotal * rate, 2), the rate in percent
PERCENT == 100
rate_amount(subtotal, rate) ==
    RoundDiv(subtotal * rate, PERCENT * TENTHS_PER_CENT) * TENTHS_PER_CENT

adjustment(type, label, amount) ==
    [type |-> {type}, label |-> label, amount |-> {amount}]

Amounts(adjustments) ==
    [i \in DOMAIN adjustments |-> ValueOf(adjustments[i].amount)]

\* a slip in the total: the service fee, inserted first, left out of the sum
pricing_total_without_first(subtotal, adjustments) ==
    Round2(subtotal + SeqSum(Amounts(IF Len(adjustments) > 2
                                     THEN Tail(adjustments) ELSE adjustments)))

\* round(subtotal + sum(adj["amount"] for adj in adjustments), 2)
pricing_total(subtotal, adjustments) ==
    Round2(subtotal + SeqSum(Amounts(adjustments)))

calculate_pricing(products) ==
    {LET subtotal == Round2(SeqSum([i \in DOMAIN products |->
                                ValueOf(ValueOf(products[i].price).total)]))
         base == << adjustment("TAX", "Estimated Tax", rate_amount(subtotal, tax_rate)),
                    adjustment("TIP", "Dasher Tip", rate_amount(subtotal, tip_rate)) >>
         adjustments ==
            IF fee_rate = {} THEN base
            ELSE << adjustment("FEE", "Service Fee",
                               rate_amount(subtotal, ValueOf(fee_rate))) >> \o base
     IN  [subTotal |-> {subtotal},
          adjustments |-> {adjustments},
          total |-> {pricing_total(subtotal, adjustments)},
          currency |-> {"USD"}] :
        tax_rate \in TaxRates, tip_rate \in TipRates, fee_rate \in ServiceFeeRates}

(***************************************************************************)
(* generate_order                                                          *)
(***************************************************************************)
PRINCETON_ZIP_CODES == {"08540", "08542", "08541"}

\* str.split(" ") of the third part of the addresses of the catalog
SplitAtSpace(part) ==
    CASE part = "NJ 08540" -> <<"NJ", "08540">>
      [] part = "NJ 08542" -> <<"NJ", "08542">>
      [] OTHER -> <<part>>

\* fake.street_address()
FakeStreetAddresses == {"77 Faker Ave"}

\* every address parse_address can return for the parts of an address
parse_address(parts) ==
    IF Len(parts) >= 3
    THEN LET state_zip == SplitAtSpace(parts[3]) IN
         {[line1 |-> {parts[1]}, city |-> {parts[2]},
           region |-> {state_zip[1]}, postalCode |-> {postal_code},
           countryCode |-> {"US"}, location |-> {}] :
            postal_code \in IF Len(state_zip) > 1 THEN {state_zip[2]}
                            ELSE PRINCETON_ZIP_CODES}
    ELSE {[line1 |-> {line1}, city |-> {"Princeton"}, region |-> {"NJ"},
           postalCode |-> {postal_code}, countryCode |-> {"US"},
           location |-> {}] :
            line1 \in FakeStreetAddresses, postal_code \in PRINCETON_ZIP_CODES}

\* a text is a sequence of chunks: a chunk is one of the characters that
\* cut a URL, or a piece of text that holds none of them
ORDER_ID_LENGTH == 12
ORDERS_URL == <<"https", ":", "/", "/", "www.doordash.com", "/", "orders", "/">>

\* what generate_order draws at random besides the products and the pricing:
\* generate_order_id(), generate_delivery_address(), generate_phone_number()
GeneratedParts ==
    {[order_id |-> <<"r", "e", "l", "f", "c", "g", "j", "2", "g", "b", "0", "i">>,
      delivery_address |-> [line1 |-> {"1 Nassau St"}, city |-> {"Princeton"},
                            region |-> {"NJ"}, postalCode |-> {"08540"},
                            countryCode |-> {"US"}, location |-> {}],
      phone_number |-> "+16091000000"],
     [order_id |-> <<"0", "0", "0", "0", "0", "0", "0", "0", "0", "0", "0", "z">>,
      delivery_address |-> [line1 |-> {"999 College Rd"}, city |-> {"Princeton"},
                            region |-> {"NJ"}, postalCode |-> {"08541"},
                            countryCode |-> {"US"}, location |-> {}],
      phone_number |-> "+16099999999"]}

\* str(n) of a natural number: its decimal digits
DigitChars == <<"0", "1", "2", "3", "4", "5", "6", "7", "8", "9">>
RECURSIVE Str(_)
Str(n) ==
    IF n < 10 THEN <<DigitChars[n + 1]>>
    ELSE Append(Str(n \div 10), DigitChars[(n % 10) + 1])

USER_ID_BASE == 10000

\* the orders generate_order can build around a list of products
build_order(restaurant, order_index, products) ==
         {{[external_user_id |-> {Str(USER_ID_BASE + order_index)},
            url |-> {ORDERS_URL \o parts.order_id},
            orderStatus |-> {"COMPLETED"},
            shipping |-> {[location |-> {[address |-> {parts.delivery_address},
                                          name |-> {}, phoneNumber |-> {}]}]},
            store |-> {[location |-> {[
                address |-> {restaurant_address},
                name |-> {IF restaurant.restaurant = {}
                          THEN "Unknown Restaurant"
                          ELSE ValueOf(restaurant.restaurant)},
                phoneNumber |-> {parts.phone_number}]}]},
            price |-> {price_info},
            products |-> {products},
            schema_version |-> {"11/08/2025"}]} :
            price_info \in calculate_pricing(products),
            parts \in GeneratedParts,
            restaurant_address \in parse_address(
                IF restaurant.address = {} THEN <<"">>
                ELSE ValueOf(restaurant.address))}

\* a slip in generate_order: the test `if not products' left out
generate_order_from_any(restaurant, order_index, products) ==
    build_order(restaurant, order_index, products)

\* generate_order from `if not products' on: None, or an order
generate_order_from(restaurant, order_index, products) ==
    IF products = <<>> THEN {{}}
    ELSE build_order(restaurant, order_index, products)

\* every outcome of generate_order
generate_order(restaurant, order_index) ==
    UNION {generate_order_from(restaurant, order_index, products) :
            products \in select_menu_items(restaurant)}

(***************************************************************************)
(* insert_orders.py: transform_order                                       *)
(*                                                                         *)
(*   - a raw order is a JSON object whose keys may be absent: every key    *)
(*     the function reads is Optional, {} when the key is absent;          *)
(*   - an amount is counted in tenths of a cent, as in the generator;      *)
(*   - a coordinate is counted in units of 0.0001 degree;                  *)
(*   - order_completed_at is counted in minutes from the moment of the     *)
(*     transformation (datetime.utcnow()), negative in the past.           *)
(***************************************************************************)
\* dict.get(key, default) of a value that may be absent
Get(opt, default) == IF opt = {} THEN default ELSE ValueOf(opt)

\* the characters that cut a URL
IsScheme(url) == Len(url) >= 2 /\ url[1] \notin {"/", "?", "#", ":"} /\ url[2] = ":"

\* the text up to the first chunk of the set stops, that chunk left out
RECURSIVE UpTo(_, _)
UpTo(text, stops) ==
    IF text = <<>> \/ Head(text) \in stops THEN <<>>
    ELSE <<Head(text)>> \o UpTo(Tail(text), stops)

\* the text from the first chunk of the set stops on
RECURSIVE From(_, _)
From(text, stops) ==
    IF text = <<>> \/ Head(text) \in stops THEN text
    ELSE From(Tail(text), stops)

\* urlparse(url).path: the scheme and the //netloc are cut off the front,
\* the ?query and the #fragment off the end
UrlPath(url) ==
    LET noScheme == IF IsScheme(url) THEN SubSeq(url, 3, Len(url)) ELSE url
        noNetloc == IF Len(noScheme) >= 2 /\ noScheme[1] = "/" /\ noScheme[2] = "/"
                    THEN From(SubSeq(noScheme, 3, Len(noScheme)), {"/", "?", "#"})
                    ELSE noScheme
    IN  UpTo(noNetloc, {"?", "#"})

\* text.split('/')[-1]
RECURSIVE LastPiece(_)
LastPiece(text) ==
    IF "/" \notin Range(text) THEN text
    ELSE LastPiece(Tail(From(text, {"/"})))

extract_order_key(url) ==
    LET path == UrlPath(url)
    IN  IF path # <<>> THEN LastPiece(path) ELSE LastPiece(url)

PRINCETON_CENTER_LAT == 403573
PRINCETON_CENTER_LON == -746672
COORDINATE_VARIATION == 500

\* random.uniform(-COORDINATE_VARIATION, COORDINATE_VARIATION), drawn once
\* for the latitude and once for the longitude
CoordinateDraws ==
    {[lat |-> -COORDINATE_VARIATION, lon |-> COORDINATE_VARIATION],
     [lat |-> COORDINATE_VARIATION, lon |-> -COORDINATE_VARIATION]}

\* a slip in the point: the pair written as [latitude, longitude]
generate_coordinates_lat_first(draw) ==
    [type |-> "Point",
     coordinates |-> <<PRINCETON_CENTER_LAT + draw.lat,
                       PRINCETON_CENTER_LON + draw.lon>>]

generate_coordinates(draw) ==
    [type |-> "Point",
     coordinates |-> <<PRINCETON_CENTER_LON + draw.lon,
                       PRINCETON_CENTER_LAT + draw.lat>>]

\* str.upper() of the adjustment types that occur
Upper(type) ==
    CASE type \in {"tax", "Tax", "TAX"} -> "TAX"
      [] type \in {"tip", "Tip", "TIP"} -> "TIP"
      [] type \in {"fee", "FEE"} -> "FEE"
      [] type \in {"discount", "DISCOUNT"} -> "DISCOUNT"
      [] OTHER -> type

\* a slip in the comparison: the type compared as it is written
adjustment_type_as_written(adj) == Get(adj.type, "")

\* adj.get("type", "").upper()
adjustment_type(adj) == Upper(Get(adj.type, ""))

RECURSIVE SumOfType(_, _)
SumOfType(adjustments, type) ==
    IF adjustments = <<>> THEN 0
    ELSE (IF adjustment_type(Head(adjustments)) = type
          THEN Get(Head(adjustments).amount, 0) ELSE 0)
         + SumOfType(Tail(adjustments), type)

\* a slip in the extraction: the tax taken from the first entry of the list
\* and the tip from the second, whatever their types
extract_tax_and_tip_by_position(adjustments) ==
    [tax |-> IF Len(adjustments) >= 1 THEN Round2(Get(adjustments[1].amount, 0)) ELSE 0,
     tip |-> IF Len(adjustments) >= 2 THEN Round2(Get(adjustments[2].amount, 0)) ELSE 0]

\* return round(tax, 2), round(tip, 2)
extract_tax_and_tip(adjustments) ==
    [tax |-> Round2(SumOfType(adjustments, "TAX")),
     tip |-> Round2(SumOfType(adjustments, "TIP"))]

MINUTES_PER_HOUR == 60
MINUTES_PER_DAY == 1440

\* days_ago_range = (1, 90)
MIN_DAYS_AGO == 1
MAX_DAYS_AGO == 90

\* random.randint(days_ago_range[0], days_ago_range[1]),
\* random.randint(0, 23) and random.randint(0, 59)
TimeDraws ==
    {[days_ago |-> d, hours |-> c[1], minutes |-> c[2]] :
        d \in {MIN_DAYS_AGO, MAX_DAYS_AGO}, c \in {<<0, 0>>, <<23, 59>>}}

\* a slip in the range: the days counted from today, so that the offset of
\* hours and minutes reaches past the present
completed_at_days_from_today(time) ==
    0 - (time.days_ago - MIN_DAYS_AGO) * MINUTES_PER_DAY
      + time.hours * MINUTES_PER_HOUR + time.minutes

\* datetime.utcnow() - timedelta(days=days_ago), then
\* += timedelta(hours=..., minutes=...): in minutes from the present
completed_at(time) ==
    0 - time.days_ago * MINUTES_PER_DAY
      + time.hours * MINUTES_PER_HOUR + time.minutes

\* what transform_order draws at random
TransformDraws ==
    [time : TimeDraws, shipping : CoordinateDraws, store : CoordinateDraws]

\* a slip in the defaults: a missing orderStatus left empty
default_status_empty == ""

default_status == "COMPLETED"

transform_address(addr, draw) ==
    [line1 |-> Get(addr.line1, ""),
     city |-> Get(addr.city, ""),
     region |-> Get(addr.region, ""),
     postalCode |-> Get(addr.postalCode, ""),
     countryCode |-> Get(addr.countryCode, "US"),
     location |-> generate_coordinates(draw)]

\* the JSON objects with no key at all
EmptyAddress ==
    [line1 |-> {}, city |-> {}, region |-> {}, postalCode |-> {},
     countryCode |-> {}, location |-> {}]
EmptyLocation == [address |-> {}, name |-> {}, phoneNumber |-> {}]
EmptyPlace == [location |-> {}]
EmptyPrice == [subTotal |-> {}, adjustments |-> {}, total |-> {}, currency |-> {}]
EmptyProductPrice == [unitPrice |-> {}, total |-> {}]

transform_product(product) ==
    LET product_price == Get(product.price, EmptyProductPrice) IN
    [name |-> Get(product.name, ""),
     quantity |-> Get(product.quantity, 0),
     unitPrice |-> Get(product_price.unitPrice, 0),
     total |-> Get(product_price.total, 0)]

transform_order(order, draws) ==
    LET shipping_addr ==
            Get(Get(Get(order.shipping, EmptyPlace).location, EmptyLocation).address,
                EmptyAddress)
        store_location == Get(Get(order.store, EmptyPlace).location, EmptyLocation)
        store_addr == Get(store_location.address, EmptyAddress)
        price_data == Get(order.price, EmptyPrice)
        adjustments == Get(price_data.adjustments, <<>>)
        tt == extract_tax_and_tip(adjustments)
        products == Get(order.products, <<>>)
    IN  [order_key |-> extract_order_key(Get(order.url, <<>>)),
         order_completed_at |-> completed_at(draws.time),
         status |-> Get(order.orderStatus, default_status),
         user_id |-> Get(order.external_user_id, <<>>),
         shipping_address |-> transform_address(shipping_addr, draws.shipping),
         store |-> [name |-> Get(store_location.name, ""),
                    phoneNumber |-> Get(store_location.phoneNumber, ""),
                    address |-> transform_address(store_addr, draws.store)],
         price |-> [subTotal |-> Get(price_data.subTotal, 0),
                    tax |-> tt.tax,
                    tip |-> tt.tip,
                    total |-> Get(price_data.total, 0),
                    currency |-> Get(price_data.currency, "USD")],
         products |-> [i \in DOMAIN products |-> transform_product(products[i])],
         schema_version |-> Get(order.schema_version, "11/08/2025")]

(***************************************************************************)
(* generate_doordash_orders.py: the loop of main()                         *)
(***************************************************************************)
\* the script generates NUM_ORDERS = 100 orders; the loop is the same for
\* a smaller batch
NUM_ORDERS == 3
MAX_RETRIES == 5

\* of an order that the loop holds, the fields that tell its slot and its
\* restaurant
Summary(order) ==
    [external_user_id |-> order.external_user_id,
     store_name |-> ValueOf(ValueOf(order.store).location).name]

SummaryOf(outcome) == {Summary(order) : order \in outcome}

\* one pass of `for attempt in range(max_retries)`: a restaurant is chosen
\* with random.choice(restaurants) and generate_order runs on it
gen_attempt ==
    /\ gen.pc = "attempt"
    /\ gen.attempt < MAX_RETRIES
    /\ gen.order = {}
    /\ \E r \in DOMAIN Catalog :
        \E products \in select_menu_items(Catalog[r]) :
            \E order \in generate_order_from(Catalog[r], gen.i, products) :
                gen' = [gen EXCEPT !.attempt = @ + 1, !.order = SummaryOf(order)]
    /\ UNCHANGED <<coll, indexes, nextId, resp, job, knot, scrape>>

\* a slip in the tally: a failed slot counted once for each of its attempts
next_failed_count_per_attempt(failed_count, attempt, order) ==
    IF order # {} THEN failed_count ELSE failed_count + attempt

\* if order: orders.append(order) else: failed_count += 1
next_failed_count(failed_count, attempt, order) ==
    IF order # {} THEN failed_count ELSE failed_count + 1

\* the inner loop is left, by break or with the retries used up: the order
\* is appended or the failure counted, and the next slot starts
gen_slot_end ==
    /\ gen.pc = "attempt"
    /\ gen.order # {} \/ gen.attempt = MAX_RETRIES
    /\ gen' = [pc |-> IF gen.i + 1 = NUM_ORDERS THEN "done" ELSE "attempt",
                 i |-> gen.i + 1,
                 attempt |-> 0,
                 order |-> {},
                 orders |-> IF gen.order # {}
                            THEN Append(gen.orders, ValueOf(gen.order))
                            ELSE gen.orders,
                 failed_count |-> next_failed_count(gen.failed_count, gen.attempt,
                                                    gen.order)]
    /\ UNCHANGED <<coll, indexes, nextId, resp, job, knot, scrape>>

\* main() has loaded a catalog that is not empty and enters the loop
GenInit ==
    /\ EmptyStore
    /\ job = NoJob
    /\ knot = NoCall
    /\ scrape = NoScrape
    /\ gen = [pc |-> "attempt", i |-> 0, attempt |-> 0, order |-> {},
                orders |-> <<>>, failed_count |-> 0]

GenNext ==
    \/ gen_attempt
    \/ gen_slot_end

GenSpec == GenInit /\ [][GenNext]_vars

(***************************************************************************)
(* One order through generate_order and transform_order                    *)
(***************************************************************************)
\* order_index of generate_order: the first and the last slot of the script
OrderIndexes == {0, 99}

\* the JSON object with no key at all
EmptyOrder ==
    [external_user_id |-> {}, url |-> {}, orderStatus |-> {}, shipping |-> {},
     store |-> {}, price |-> {}, products |-> {}, schema_version |-> {}]

RawAdjustment(type, amount) == [type |-> type, label |-> "", amount |-> amount]

\* orders of a doordash_orders.json that was not written by the generator
FileOrders == {
    EmptyOrder,
    [EmptyOrder EXCEPT
        !.url = {<<"https", ":", "/", "/", "www.doordash.com">>},
        !.orderStatus = {"CANCELLED"},
        !.price = {[EmptyPrice EXCEPT !.subTotal = {5000}]}],
    [EmptyOrder EXCEPT
        !.url = {ORDERS_URL \o <<"a", "b", "c", "?", "ref=a", "/", "b">>},
        !.price = {[EmptyPrice EXCEPT
            !.total = {9000},
            !.adjustments = {<< RawAdjustment({"tax"}, {1005}),
                                RawAdjustment({"TAX"}, {1000}),
                                RawAdjustment({"Tip"}, {250}),
                                RawAdjustment({"DISCOUNT"}, {-500}),
                                RawAdjustment({"FEE"}, {300}),
                                RawAdjustment({}, {700}),
                                RawAdjustment({"TIP"}, {}) >>}]}],
    [EmptyOrder EXCEPT
        !.external_user_id = {<<"7">>},
        !.shipping = {[location |-> {[EmptyLocation EXCEPT
            !.address = {[EmptyAddress EXCEPT
                !.city = {"Trenton"},
                !.location = {[type |-> "Point", coordinates |-> <<0, 0>>]}]}]}]},
        !.store = {[location |-> {[EmptyLocation EXCEPT !.name = {"Diner"}]}]},
        !.products = {<< [name |-> {"Pie"}, quantity |-> {}, price |-> {},
                          orderStatus |-> {}],
                         [name |-> {}, quantity |-> {2},
                          price |-> {[unitPrice |-> {1500}, total |-> {}]},
                          orderStatus |-> {}] >>}],
    [EmptyOrder EXCEPT
        !.shipping = {EmptyPlace},
        !.store = {[location |-> {[EmptyLocation EXCEPT
            !.address = {[EmptyAddress EXCEPT
                !.location = {[type |-> "Point", coordinates |-> <<1, 1>>]}]}]}]},
        !.schema_version = {"1"}] }

\* generate_order(restaurant, order_index), as main() of the generator calls it
generate_one ==
    /\ job.stage = "start"
    /\ \E r \in DOMAIN Catalog, order_index \in OrderIndexes :
        \E products \in select_menu_items(Catalog[r]) :
            \E order \in generate_order_from(Catalog[r], order_index, products) :
                job' = [stage |-> "generated", restaurant |-> r,
                        order_index |-> order_index, order |-> order]
    /\ UNCHANGED <<coll, indexes, nextId, resp, gen, knot, scrape>>

\* json.load of an orders file that holds some other order
load_one ==
    /\ job.stage = "start"
    /\ \E order \in FileOrders :
        job' = [stage |-> "loaded", order |-> {order}]
    /\ UNCHANGED <<coll, indexes, nextId, resp, gen, knot, scrape>>

\* transform_order(order), as main() of insert_orders.py calls it
transform_one ==
    /\ job.stage \in {"generated", "loaded"}
    /\ job.order # {}
    /\ \E draws \in TransformDraws :
        job' = [stage |-> "transformed", from |-> job.stage,
                raw |-> ValueOf(job.order), draws |-> draws,
                out |-> transform_order(ValueOf(job.order), draws)]
    /\ UNCHANGED <<coll, indexes, nextId, resp, gen, knot, scrape>>

PipeInit ==
    /\ EmptyStore
    /\ gen = NoBatch
    /\ knot = NoCall
    /\ scrape = NoScrape
    /\ job = [stage |-> "start"]

PipeNext ==
    \/ generate_one
    \/ load_one
    \/ transform_one

PipeSpec == PipeInit /\ [][PipeNext]_vars

(***************************************************************************)
(* knot_service.py: the Knot proxy                                         *)
(*                                                                         *)
(*   - knot.sent is the list of the requests that reached the upstream;    *)
(*   - the body of an answer is a text: the JSON text of a value, or a     *)
(*     text that is no JSON.                                               *)
(***************************************************************************)
KNOT_API_BASE == "https://development.knotapi.com"
KNOT_TUNNEL_BASE == "https://knot.tunnel.tel"

\* KNOT_CLIENT_ID and KNOT_CLIENT_SECRET of the environment; {} is a variable
\* that is unset or empty. src/services/knot_service.py has both written in
\* the module
Credentials == [client_id : {{}, {"id"}}, client_secret : {{}, {"secret"}}]

CredentialsConfigured(c) == c.client_id # {} /\ c.client_secret # {}

\* base64.b64encode(auth_str.encode()).decode()
B64(text) == [base64 |-> text]

\* _get_b64_auth, past its check of the credentials
get_b64_auth(c) == B64(<<ValueOf(c.client_id), ":", ValueOf(c.client_secret)>>)

ExternalUserIds == {"10000", ""}
MerchantIds == {19, 44}
OptLimits == {{}, {0}, {5}}
OptCursors == {{}, {""}, {"c1"}}

\* the three calls with their arguments
KnotCalls ==
    [fn : {"create_knot_session_api_call"}, merchant_id : {{}},
     external_user_id : ExternalUserIds, limit : {{}}, cursor : {{}}]
    \cup
    [fn : {"sync_transactions_api_call"}, merchant_id : {{m} : m \in MerchantIds},
     external_user_id : ExternalUserIds, limit : OptLimits, cursor : OptCursors]
    \cup
    [fn : {"sync_transactions_mock_api_call"}, merchant_id : {{m} : m \in MerchantIds},
     external_user_id : ExternalUserIds, limit : OptLimits, cursor : {{}}]

\* the calls whose headers hold f"Basic {_get_b64_auth()}"
NeedsAuth(call) == call.fn # "sync_transactions_mock_api_call"

HeaderNames == {"Authorization", "Content-Type", "Knot-Version"}

\* headers={...} of client.post
knot_headers(call, credentials) ==
    [h \in HeaderNames |->
        CASE h = "Authorization" ->
                IF NeedsAuth(call)
                THEN {<<"Basic", get_b64_auth(credentials)>>} ELSE {}
          [] h = "Content-Type" -> {"application/json"}
          [] h = "Knot-Version" ->
                IF call.fn = "create_knot_session_api_call" THEN {"2.0"} ELSE {}]

\* json=payload: limit is added when it is not None, cursor when it is truthy
knot_payload(call) ==
    [type |-> IF call.fn = "create_knot_session_api_call"
              THEN {"transaction_link"} ELSE {},
     merchant_id |-> call.merchant_id,
     external_user_id |-> call.external_user_id,
     limit |-> call.limit,
     cursor |-> IF TruthyStr(call.cursor) THEN call.cursor ELSE {}]

knot_url(call) ==
    CASE call.fn = "create_knot_session_api_call" -> <<KNOT_API_BASE, "/session/create">>
      [] call.fn = "sync_transactions_api_call" -> <<KNOT_API_BASE, "/transactions/sync">>
      [] call.fn = "sync_transactions_mock_api_call" -> <<KNOT_TUNNEL_BASE, "/transactions/sync">>

knot_request(call, credentials) ==
    [url |-> knot_url(call), headers |-> knot_headers(call, credentials),
     json |-> knot_payload(call)]

\* how a call ends: it returns a value or an exception leaves it
Returns(value) == [returned |-> {value}, raised |-> {}]
Raises(type, status_code, detail) ==
    [returned |-> {},
     raised |-> {[type |-> type, status_code |-> status_code, detail |-> detail]}]
HTTPException(status_code, detail) == Raises("HTTPException", {status_code}, detail)

failure_detail(call) ==
    CASE call.fn = "create_knot_session_api_call" -> "Failed to create Knot session"
      [] call.fn = "sync_transactions_api_call" -> "Failed to sync transactions"
      [] call.fn = "sync_transactions_mock_api_call" -> "Failed to sync transactions (mock)"

\* what the upstream can answer; no answer at all is a transport error
JsonValues == {[session |-> {"s1"}, message |-> {}],
               [session |-> {}, message |-> {"denied"}]}
JsonText(value) == [json |-> {value}]
NotJson == [json |-> {}]
Statuses == {200, 201, 401, 500}
UpstreamAnswers ==
    [status_code : Statuses, body : {JsonText(v) : v \in JsonValues} \cup {NotJson}]

\* every status of the 2xx class taken for a success
on_answer_any_2xx(call, answer) ==
    IF answer.status_code \div 100 # 2
    THEN HTTPException(answer.status_code, failure_detail(call))
    ELSE IF answer.body.json = {}
         THEN Raises("JSONDecodeError", {}, "")
         ELSE Returns(ValueOf(answer.body.json))

\* if resp.status_code != 200: raise HTTPException(...); return resp.json()
on_answer(call, answer) ==
    IF answer.status_code # 200
    THEN HTTPException(answer.status_code, failure_detail(call))
    ELSE IF answer.body.json = {}
         THEN Raises("JSONDecodeError", {}, "")
         ELSE Returns(ValueOf(answer.body.json))

\* a call up to `await client.post(...)': the headers are built first, and
\* _get_b64_auth raises before anything is sent
knot_send ==
    /\ knot.pc = "idle"
    /\ \E call \in KnotCalls :
        IF NeedsAuth(call) /\ ~CredentialsConfigured(knot.credentials)
        THEN knot' = [knot EXCEPT
                        !.pc = "done", !.call = {call},
                        !.outcome = {HTTPException(500, "Knot credentials not configured")}]
        ELSE knot' = [knot EXCEPT
                        !.pc = "awaiting", !.call = {call},
                        !.sent = Append(@, knot_request(call, knot.credentials))]
    /\ UNCHANGED <<coll, indexes, nextId, resp, gen, job, scrape>>

\* the await ends: with an answer, or with the error of the transport
knot_receive ==
    /\ knot.pc = "awaiting"
    /\ \/ \E answer \in UpstreamAnswers :
            knot' = [knot EXCEPT
                        !.pc = "done", !.answer = {answer},
                        !.outcome = {on_answer(ValueOf(knot.call), answer)}]
       \/ knot' = [knot EXCEPT
                        !.pc = "done",
                        !.outcome = {Raises("TransportError", {}, "")}]
    /\ UNCHANGED <<coll, indexes, nextId, resp, gen, job, scrape>>

KnotInit ==
    /\ EmptyStore
    /\ gen = NoBatch
    /\ job = NoJob
    /\ scrape = NoScrape
    /\ \E c \in Credentials :
        knot = [pc |-> "idle", credentials |-> c, call |-> {}, sent |-> <<>>,
                answer |-> {}, outcome |-> {}]

KnotNext ==
    \/ knot_send
    \/ knot_receive

KnotSpec == KnotInit /\ [][KnotNext]_vars

(***************************************************************************)
(* The catalog builders: main.py, fake_data_nova.py and fake_data.py       *)
(*                                                                         *)
(*   - scrape.merged is all_restaurants_dict as the list of its values, in *)
(*     the order a dict keeps them (the order in which the keys were first *)
(*     set), or the list all_restaurants of fake_data.py;                  *)
(*   - scrape.results is the list of the results processed so far.         *)
(***************************************************************************)
\* how many queries (main.py) or pages (fake_data_nova.py) the loop runs over
NumQueries == 3

Builders == {"main", "fake_data_nova", "fake_data"}

\* fake_data.py asks for one city only: cities_to_search = ["Princeton"]
queries_of(builder) == IF builder = "fake_data" THEN 1 ELSE NumQueries

CatalogEntry(name, address) == [restaurant |-> name, address |-> address]

\* what one query or page can give: nothing usable (the empty list, or None),
\* or a list of entries, some of them without a name or with an empty one
ScrapedResults == {
    <<>>,
    <<CatalogEntry({"Agricola"}, "11 Witherspoon St"),
      CatalogEntry({"Mistral"}, "66 Witherspoon St")>>,
    <<CatalogEntry({"Agricola"}, "Princeton")>>,
    <<CatalogEntry({""}, "1 Palmer Sq"), CatalogEntry({}, "2 Palmer Sq"),
      CatalogEntry({"Agricola"}, "11 Witherspoon St")>>,
    <<CatalogEntry({"Agricola"}, "11 Witherspoon St"),
      CatalogEntry({"Agricola"}, "Princeton")>>,
    <<CatalogEntry({"Mistral"}, "66 Witherspoon St"),
      CatalogEntry({"agricola"}, "Princeton")>> }

\* a name that is already a key keeps its first value
dict_set_keep_first(merged, entry) ==
    IF \E i \in DOMAIN merged : merged[i].restaurant = entry.restaurant
    THEN merged
    ELSE Append(merged, entry)

\* all_restaurants_dict[name] = restaurant
dict_set(merged, entry) ==
    IF \E i \in DOMAIN merged : merged[i].restaurant = entry.restaurant
    THEN [i \in DOMAIN merged |->
            IF merged[i].restaurant = entry.restaurant THEN entry ELSE merged[i]]
    ELSE Append(merged, entry)

\* for restaurant in category_restaurants: name = restaurant.get("restaurant");
\* if name: all_restaurants_dict[name] = restaurant
RECURSIVE dict_merge(_, _)
dict_merge(merged, result) ==
    IF result = <<>> THEN merged
    ELSE dict_merge(IF TruthyStr(Head(result).restaurant)
                    THEN dict_set(merged, Head(result)) ELSE merged,
                    Tail(result))

\* the body of the loop for one result: the dict of main.py and of
\* fake_data_nova.py, all_restaurants.extend(city_restaurants) in fake_data.py
merge_result(builder, merged, result) ==
    IF builder = "fake_data" THEN merged \o result
    ELSE dict_merge(merged, result)

\* one turn of the loop: the query or page gives its result and it is merged
scrape_query ==
    /\ scrape.pc = "loop"
    /\ Len(scrape.results) < queries_of(scrape.builder)
    /\ \E result \in ScrapedResults :
        scrape' = [scrape EXCEPT
                    !.results = Append(@, result),
                    !.merged = merge_result(scrape.builder, @, result)]
    /\ UNCHANGED <<coll, indexes, nextId, resp, gen, job, knot>>

\* after the loop: json.dump of the list; fake_data_nova.py writes no file
\* when it found no restaurant
scrape_save ==
    /\ scrape.pc = "loop"
    /\ Len(scrape.results) = queries_of(scrape.builder)
    /\ IF scrape.builder = "fake_data_nova" /\ scrape.merged = <<>>
       THEN scrape' = [scrape EXCEPT !.pc = "ended"]
       ELSE scrape' = [scrape EXCEPT !.pc = "saved", !.file = {scrape.merged}]
    /\ UNCHANGED <<coll, indexes, nextId, resp, gen, job, knot>>

ScrapeInit ==
    /\ EmptyStore
    /\ gen = NoBatch
    /\ job = NoJob
    /\ knot = NoCall
    /\ \E builder \in Builders :
        scrape = [pc |-> "loop", builder |-> builder, results |-> <<>>,
                  merged |-> <<>>, file |-> {}]

ScrapeNext ==
    \/ scrape_query
    \/ scrape_save

ScrapeSpec == ScrapeInit /\ [][ScrapeNext]_vars

(***************************************************************************)
(* GET /orders while insert_orders is running                              *)
(*                                                                         *)
(* The handler reads the store twice, count_documents and then find, and   *)
(* nothing ties the two reads together: the script insert_orders is        *)
(* another process and can persist documents between them.  Here resp      *)
(* holds the request from its count to its answer, pc being the position   *)
(* of the handler.                                                         *)
(***************************************************************************)
\* the requests of this part: with or without the user_id filter
RaceRequests ==
    {f @@ p : f \in {req \in FilterRequests : Supplied(req) \subseteq {"user_id"}},
              p \in Paging}

\* the handler up to total = collection.count_documents(query_filter)
get_orders_count ==
    /\ resp = NoResp
    /\ \E req \in RaceRequests :
        IF ~get_orders_valid(req)
        THEN resp' = Rejected("get_orders", req) @@ [pc |-> "done"]
        ELSE resp' = [op |-> "get_orders", req |-> req, pc |-> "counted",
                      total |-> count_documents(coll, get_orders_query(req))]
    /\ UNCHANGED <<coll, indexes, nextId, gen, job, knot, scrape>>

\* a run of insert_orders between the two reads of the request
insert_orders_meanwhile ==
    /\ resp.op = "get_orders"
    /\ resp.pc = "counted"
    /\ \E orders \in SeqsUpTo(Range(Pool), MaxDocs - nextId) \ {<<>>},
          batch_size \in BatchSizes :
        LET docs == WithIds(orders, nextId)
            r == insert_batches(coll, indexes, docs, batch_size)
        IN  /\ coll' = r.coll
            /\ indexes' = create_indexes(r.coll, indexes, IndexSpecs)
            /\ nextId' = nextId + Len(orders)
    /\ UNCHANGED <<resp, gen, job, knot, scrape>>

\* the rest of the handler: find, sort, skip, limit on the store as it is
\* now, answered with the total counted before
get_orders_find ==
    /\ resp.op = "get_orders"
    /\ resp.pc = "counted"
    /\ \E r \in ListResponses("get_orders", resp.req, coll, get_orders_query(resp.req)) :
        resp' = [r EXCEPT !.total = resp.total] @@ [pc |-> "done"]
    /\ UNCHANGED <<coll, indexes, nextId, gen, job, knot, scrape>>

RaceNext ==
    \/ insert_orders
    \/ insert_orders_meanwhile
    \/ get_orders_count
    \/ get_orders_find
    \/ Deliver

RaceSpec == Init /\ [][RaceNext]_vars

(***************************************************************************)
(* Properties                                                              *)
(***************************************************************************)
InRange(d, start_date, end_date) ==
    /\ \A v \in start_date : d.order_completed_at >= v
    /\ \A v \in end_date : d.order_completed_at <= v

\* avg is num / den rounded to a nearest whole cent
NearestCent(avg, num, den) ==
    /\ 2 * (avg * den - num) <= den
    /\ 2 * (num - avg * den) <= den

IsListResponse(op) == resp.op = op /\ resp.status = 200

\* the text occurs in the name as it is written, letter case apart
LiteralSubstring(text, name) ==
    \E pos \in 1..(Len(name) - Len(text) + 1) :
        \A i \in 1..Len(text) : Lower(text[i]) = Lower(name[pos + i - 1])

\* C1: a valid get_orders request is answered; total is the number of
\* stored orders that the filter of the request selects, whatever the page,
\* and orders is the slice (page-1)*page_size .. page*page_size-1 of these
\* orders in descending order of order_completed_at (empty past the end).
C1_PageOfSortedMatches ==
    resp.op = "get_orders" =>
        LET req == resp.req
            ok == /\ req.page >= 1 /\ req.page_size \in 1..MAX_PAGE_SIZE
                  /\ \A v \in req.min_total \cup req.max_total : v >= 0
        IN  /\ ok => resp.status = 200
            /\ resp.status = 200 =>
                LET M == {convert_objectid_to_str(d) :
                            d \in Find(coll, get_orders_query(req))}
                    n == Cardinality(M)
                    first == (req.page - 1) * req.page_size
                    page == Range(resp.orders)
                    rest == M \ page
                IN  /\ resp.total = n
                    /\ Len(resp.orders) = Max(0, Min(req.page_size, n - first))
                    /\ page \subseteq M
                    /\ Cardinality(page) = Len(resp.orders)
                    /\ \A i, j \in DOMAIN resp.orders :
                        i < j => resp.orders[i].order_completed_at
                                    >= resp.orders[j].order_completed_at
                    /\ \E B \in SUBSET rest :
                        /\ Cardinality(B) = Min(first, n)
                        /\ \A b \in B, o \in M \ B :
                            b.order_completed_at >= o.order_completed_at
                        /\ \A o \in page, a \in rest \ B :
                            o.order_completed_at >= a.order_completed_at

\* C1 witness: the second page of size 1 of the two orders that an end
\* date selects among three stored orders
C1_Witness ==
    /\ IsListResponse("get_orders")
    /\ resp.req.page = 2 /\ resp.req.page_size = 1
    /\ resp.req.end_date # {}
    /\ Cardinality(coll) = 3
    /\ resp.total = 2
    /\ Len(resp.orders) = 1

\* C2: the count insert_orders returns is the number of documents the call
\* persisted.
C2_CountIsPersisted ==
    resp.op = "insert_orders" =>
        resp.inserted = Cardinality(coll) - Cardinality(resp.before)

\* C3: after insert_orders every order_key it was given is the key of
\* exactly one stored document.
C3_OneDocumentPerKey ==
    resp.op = "insert_orders" =>
        \A i \in DOMAIN resp.orders :
            Cardinality({d \in coll : d.order_key = resp.orders[i].order_key}) = 1

\* C4: get_orders_nearby returns only orders within max_distance_km of the
\* center, nearest first.
C4_NearestFirst ==
    IsListResponse("get_orders_nearby") =>
        LET req == resp.req
            center == <<req.longitude, req.latitude>>
            far(o) == Dist2(LocationOf(o, req.use_shipping), center)
        IN  /\ \A i \in DOMAIN resp.orders :
                far(resp.orders[i]) <= req.max_distance_km * req.max_distance_km
            /\ \A i, j \in DOMAIN resp.orders :
                i < j => far(resp.orders[i]) <= far(resp.orders[j])

\* C5: get_orders selects exactly the orders that pass every supplied
\* filter: user_id equal, status equal, order_completed_at within
\* [start_date, end_date], price.total within [min_total, max_total]
\* (the store name filter is the subject of C6).
C5_FiltersAreAConjunction ==
    IsListResponse("get_orders") =>
        LET req == resp.req
            M == {d \in coll :
                    /\ \A v \in req.user_id : d.user_id = v
                    /\ \A v \in req.status : d.status = v
                    /\ InRange(d, req.start_date, req.end_date)
                    /\ \A v \in req.min_total : d.total >= v
                    /\ \A v \in req.max_total : d.total <= v
                    /\ \A t \in req.store_name : RegexSearch(t, d.store_name)}
        IN  /\ resp.total = Cardinality(M)
            /\ Range(resp.orders) \subseteq {convert_objectid_to_str(d) : d \in M}

\* C6: the store_name filter selects exactly the orders whose store.name
\* contains the text literally, letter case apart.
C6_LiteralSubstringMatch ==
    /\ IsListResponse("get_orders_by_store") =>
        resp.total = Cardinality(
            {d \in coll : LiteralSubstring(resp.req.store_name, d.store_name)})
    /\ (IsListResponse("get_orders") /\ Supplied(resp.req) = {"store_name"}) =>
        resp.total = Cardinality(
            {d \in coll : \A t \in resp.req.store_name :
                            LiteralSubstring(t, d.store_name)})

\* the orders that the four filters of the summary select
StatsMatching(req) ==
    {d \in coll :
        /\ \A v \in req.user_id : v # "" => d.user_id = v
        /\ \A t \in req.store_name : RegexSearch(t, d.store_name)
        /\ InRange(d, req.start_date, req.end_date)}

StatsCountsAndSums(st, S) ==
    /\ st.total_orders = Cardinality(S)
    /\ st.total_revenue = SumOf(S, [d \in S |-> d.total])
    /\ st.total_tax = SumOf(S, [d \in S |-> d.tax])
    /\ st.total_tips = SumOf(S, [d \in S |-> d.tip])
    /\ st.unique_users = Cardinality({d.user_id : d \in S})
    /\ st.unique_restaurants = Cardinality({d.store_name : d \in S})

AllZero(st) ==
    /\ st.total_orders = 0 /\ st.total_revenue = 0
    /\ st.average_order_value = 0 /\ st.total_tax = 0 /\ st.total_tips = 0
    /\ st.unique_users = 0 /\ st.unique_restaurants = 0

\* C7 as stated: the summary carries the count, the sums and the distinct
\* counts of the filtered set, average_order_value is exactly
\* total_revenue / total_orders, and all fields are zero when nothing matches.
C7_ExactAverage ==
    resp.op = "get_order_stats" =>
        LET S == StatsMatching(resp.req)
            st == resp.stats
        IN  /\ resp.status = 200
            /\ StatsCountsAndSums(st, S)
            /\ S = {} => AllZero(st)
            /\ S # {} => st.average_order_value * st.total_orders = st.total_revenue

\* C7 amended: the same, with average_order_value being
\* total_revenue / total_orders rounded to 2 decimals.
C7_RoundedAverage ==
    resp.op = "get_order_stats" =>
        LET S == StatsMatching(resp.req)
            st == resp.stats
        IN  /\ resp.status = 200
            /\ StatsCountsAndSums(st, S)
            /\ S = {} => AllZero(st)
            /\ S # {} => NearestCent(st.average_order_value,
                                     st.total_revenue, st.total_orders)

\* C7 witness: a summary of two orders of two users whose revenue is not an
\* even number of cents
C7_Witness ==
    /\ resp.op = "get_order_stats"
    /\ resp.stats.total_orders = 2
    /\ resp.stats.total_revenue % 2 = 1
    /\ resp.stats.unique_users = 2
    /\ resp.stats.total_tips > 0

\* the requests that get_orders does not reject
ListAccepts(req) == \A v \in req.min_total \cup req.max_total : v >= 0

\* C8 as stated: for every combination of user_id, status, store_name,
\* start_date, end_date, min_total and max_total, total_orders of the
\* summary is the total of get_orders for the same filters.
C8_SameFiltersAsList ==
    (resp.op = "get_order_stats" /\ ListAccepts(resp.req)) =>
        resp.stats.total_orders = count_documents(coll, get_orders_query(resp.req))

\* C8 amended: the summary reads user_id, store_name, start_date and
\* end_date only; for every combination of these four filters total_orders
\* is the total of get_orders for the same filters.
C8_SameFourFilters ==
    (/\ resp.op = "get_order_stats"
     /\ Supplied(resp.req) \subseteq {"user_id", "store_name", "start_date", "end_date"}) =>
        resp.stats.total_orders = count_documents(coll, get_orders_query(resp.req))

\* C8 witness: a summary filtered by user and end date that counts an order
\* while another stored order is filtered out
C8_Witness ==
    /\ resp.op = "get_order_stats"
    /\ Supplied(resp.req) = {"user_id", "end_date"}
    /\ resp.stats.total_orders = 1
    /\ Cardinality(coll) > 1

IsRejected == resp.status = 422 /\ ~resp.accessed

\* C9: the list operations reject page < 1 and page_size outside 1..100,
\* get_orders a negative min_total or max_total, get_stats_by_restaurant a
\* limit outside 1..50, get_stats_by_date a group_by other than day, week
\* or month, get_orders_nearby a max_distance_km outside 0.1..100, each
\* before the store is accessed.
C9_RejectedBeforeStoreAccess ==
    /\ (/\ resp.op \in {"get_orders", "get_orders_by_user",
                        "get_orders_by_store", "get_orders_nearby"}
        /\ (resp.req.page < 1 \/ resp.req.page_size < 1
                \/ resp.req.page_size > MAX_PAGE_SIZE)) => IsRejected
    /\ (/\ resp.op = "get_orders"
        /\ \E v \in resp.req.min_total \cup resp.req.max_total : v < 0) => IsRejected
    /\ (/\ resp.op = "get_stats_by_restaurant"
        /\ (resp.req.limit < 1 \/ resp.req.limit > MAX_LIMIT)) => IsRejected
    /\ (/\ resp.op = "get_stats_by_date"
        /\ resp.req.group_by \notin {"day", "week", "month"}) => IsRejected
    /\ (/\ resp.op = "get_orders_nearby"
        /\ (resp.req.max_distance_km < MIN_DISTANCE
                \/ resp.req.max_distance_km > MAX_DISTANCE)) => IsRejected

\* C9 witness: a proximity search with valid paging and a radius above
\* 100 km is rejected while the collection holds orders
C9_Witness ==
    /\ resp.op = "get_orders_nearby"
    /\ resp.req.page = 1 /\ resp.req.page_size = MAX_PAGE_SIZE
    /\ resp.req.max_distance_km > MAX_DISTANCE
    /\ IsRejected
    /\ coll # {}

\* C10: get_stats_by_restaurant returns min(limit, number of distinct store
\* names in the date range) rows, one per store name, each with the count,
\* the summed revenue, tax and tips and the average order value of that
\* store, in descending order of total_revenue, no left out store having
\* more revenue than a returned one.
C10_TopRestaurants ==
    (resp.op = "get_stats_by_restaurant" /\ resp.status = 200) =>
        LET req == resp.req
            S == {d \in coll : InRange(d, req.start_date, req.end_date)}
            names == {d.store_name : d \in S}
            of(name) == {d \in S : d.store_name = name}
            revenue(name) == SumOf(of(name), [d \in of(name) |-> d.total])
            rows == resp.rows
            returned == {rows[i].restaurant_name : i \in DOMAIN rows}
        IN  /\ Len(rows) = Min(req.limit, Cardinality(names))
            /\ returned \subseteq names
            /\ Cardinality(returned) = Len(rows)
            /\ \A i \in DOMAIN rows :
                LET G == of(rows[i].restaurant_name) IN
                /\ rows[i].total_orders = Cardinality(G)
                /\ rows[i].total_revenue = revenue(rows[i].restaurant_name)
                /\ rows[i].total_tax = SumOf(G, [d \in G |-> d.tax])
                /\ rows[i].total_tips = SumOf(G, [d \in G |-> d.tip])
                /\ NearestCent(rows[i].average_order_value,
                               rows[i].total_revenue, rows[i].total_orders)
            /\ \A i, j \in DOMAIN rows :
                i < j => rows[i].total_revenue >= rows[j].total_revenue
            /\ \A name \in names \ returned, i \in DOMAIN rows :
                revenue(name) <= rows[i].total_revenue

\* C10 witness: limit 1 cuts three stores of different revenue down to the
\* one that earned most
C10_Witness ==
    /\ resp.op = "get_stats_by_restaurant" /\ resp.status = 200
    /\ resp.req.limit = 1
    /\ Len(resp.rows) = 1
    /\ Cardinality({d.store_name : d \in coll}) = 3
    /\ resp.rows[1].total_revenue = 6

\* the sum of one field over the rows of an answer
RowSum(rows, field) ==
    SumOf(DOMAIN rows, [i \in DOMAIN rows |-> rows[i][field]])

\* C11: get_stats_by_date counts every order of the date range in exactly
\* one row, the row of its day, week or month label; the total_orders of
\* the rows add up to the number of orders of the range, the total_revenue
\* of the rows to their revenue, no row is empty, and the rows come with
\* strictly ascending labels
C11_BucketsPartitionTheRange ==
    (resp.op = "get_stats_by_date" /\ resp.status = 200) =>
        LET S == {d \in coll :
                    InRange(d, resp.req.start_date, resp.req.end_date)}
            rows == resp.rows
            labelOf(d) == DateToString(resp.req.group_by, d.order_completed_at)
        IN  /\ \A d \in S :
                  Cardinality({i \in DOMAIN rows : rows[i].date = labelOf(d)}) = 1
            /\ \A i \in DOMAIN rows :
                  /\ rows[i].total_orders =
                        Cardinality({d \in S : labelOf(d) = rows[i].date})
                  /\ rows[i].total_orders >= 1
            /\ RowSum(rows, "total_orders") = Cardinality(S)
            /\ RowSum(rows, "total_revenue") = SumOf(S, Totals(S))
            /\ \A i \in 1..(Len(rows) - 1) :
                  LabelLess(rows[i].date, rows[i + 1].date)

\* C11 witness: three stored orders, a date range that leaves one of them
\* out, and the other two in two different weeks
C11_Witness ==
    /\ resp.op = "get_stats_by_date" /\ resp.status = 200
    /\ resp.req.group_by = "week"
    /\ resp.req.end_date # {}
    /\ Cardinality(coll) = 3
    /\ Len(resp.rows) = 2
    /\ RowSum(resp.rows, "total_orders") = 2
    /\ RowSum(resp.rows, "total_revenue") = 11

\* the operations of the query service
QueryOps ==
    {"get_orders", "get_order_by_key", "get_orders_by_user",
     "get_orders_by_store", "get_order_stats", "get_stats_by_restaurant",
     "get_stats_by_date", "get_orders_nearby", "get_data"}

\* C12: a step in which an operation of the query service answers, be it
\* with a result, a 404, a 422 or a server error, leaves the collection and
\* its indexes as they were; and no step of any operation removes or
\* rewrites a stored document
C12_QueriesNeverMutate ==
    [][/\ (resp'.op \in QueryOps => (coll' = coll /\ indexes' = indexes))
       /\ coll \subseteq coll']_vars

\* C12 witness: each kind of answer of the query service is given over a
\* collection that holds three orders: here a found order
C12_Witness ==
    /\ resp.op = "get_order_by_key" /\ resp.status = 200
    /\ Cardinality(coll) = 3
    /\ \E d \in coll : convert_objectid_to_str(d) = resp.order

\* the order that generate_order has just returned, when it returned one
Generated == job.stage = "generated" /\ job.order # {}
GeneratedOrder == ValueOf(job.order)
GeneratedPrice == ValueOf(GeneratedOrder.price)
GeneratedProducts == ValueOf(GeneratedOrder.products)

LineTotals(products) ==
    [i \in DOMAIN products |-> ValueOf(ValueOf(products[i].price).total)]

\* C13: in every order of generate_order, price.subTotal is the sum of the
\* line totals of the products rounded to 2 decimals, and price.total is
\* price.subTotal plus the amounts of all the entries of price.adjustments,
\* rounded to 2 decimals
C13_PricingAddsUp ==
    Generated =>
        LET adjustments == ValueOf(GeneratedPrice.adjustments)
            subTotal == ValueOf(GeneratedPrice.subTotal)
        IN  /\ subTotal = Round2(SeqSum(LineTotals(GeneratedProducts)))
            /\ ValueOf(GeneratedPrice.total) =
                Round2(subTotal + SeqSum(
                    [i \in DOMAIN adjustments |-> ValueOf(adjustments[i].amount)]))

\* C13 witness: an order of three products with a service fee in front of
\* the tax and the tip, and a line total that had to be rounded (3 teas at
\* 0.125 make 0.38)
C13_Witness ==
    /\ Generated
    /\ Len(GeneratedProducts) = 3
    /\ Len(ValueOf(GeneratedPrice.adjustments)) = 3
    /\ ValueOf(ValueOf(GeneratedPrice.adjustments)[1].type) = "FEE"
    /\ ValueOf(ValueOf(GeneratedPrice.adjustments)[1].amount) > 0
    /\ \E i \in DOMAIN GeneratedProducts :
        /\ ValueOf(GeneratedProducts[i].name) = "Tea"
        /\ LineTotals(GeneratedProducts)[i] = 380

\* the items of the menus mapping of a catalog entry, whatever the category,
\* that are objects with a name that is not empty and a unitPrice that is
\* not null
EligibleItems(restaurant) ==
    IF restaurant.menus.kind # "dict" THEN {}
    ELSE LET cats == restaurant.menus.cats IN
         {item \in UNION {Range(cats[c].items) : c \in DOMAIN cats} :
            /\ item.kind = "dict"
            /\ item.name \notin {{}, {""}}
            /\ item.unitPrice # {}}

\* C14: when the catalog entry has n >= 1 eligible items, in any category,
\* select_menu_items returns between min(2, n) and min(5, n) product lines,
\* each of an eligible item, no item twice, with a quantity in 1..3 and the
\* line total unitPrice * quantity rounded to 2 decimals
C14_SelectsEligibleItems ==
    job.stage = "generated" =>
        LET eligible == EligibleItems(Catalog[job.restaurant])
            n == Cardinality(eligible)
        IN  n >= 1 =>
            /\ job.order # {}
            /\ Len(GeneratedProducts) >= Min(2, n)
            /\ Len(GeneratedProducts) <= Min(5, n)
            /\ \A i \in DOMAIN GeneratedProducts :
                LET line == GeneratedProducts[i]
                    price == ValueOf(line.price)
                IN  /\ \E item \in eligible :
                        item.name = line.name /\ item.unitPrice = price.unitPrice
                    /\ ValueOf(line.quantity) \in 1..3
                    /\ ValueOf(price.total) =
                        Round2(ValueOf(price.unitPrice) * ValueOf(line.quantity))
                    /\ \A j \in DOMAIN GeneratedProducts :
                        j # i => GeneratedProducts[j].name # line.name

\* C15: for a catalog entry whose menus is null, missing, no mapping, or
\* holds no eligible item, select_menu_items returns the empty list and
\* generate_order returns None, not an order without products
C15_NoEligibleItemNoOrder ==
    job.stage = "generated" =>
        (EligibleItems(Catalog[job.restaurant]) = {} =>
            /\ select_menu_items(Catalog[job.restaurant]) = {<<>>}
            /\ job.order = {})

\* C15 witness: generate_order has returned None for an entry whose menus
\* holds items, but free text and incomplete objects only
C15_Witness ==
    /\ job.stage = "generated"
    /\ job.order = {}
    /\ Catalog[job.restaurant].menus.kind = "dict"
    /\ all_items(Catalog[job.restaurant]) # <<>>
    /\ EligibleItems(Catalog[job.restaurant]) = {}

\* C16: a slot makes at most MAX_RETRIES attempts and none after an attempt
\* that yielded an order; a slot ends with its order appended, or, all its
\* MAX_RETRIES attempts having failed, with failed_count one higher, and the
\* loop goes on, so that len(orders) + failed_count is the number of slots
\* done, NUM_ORDERS when the loop ends
C16_RetryBudget ==
    /\ [](gen.pc # "off" =>
            /\ gen.attempt <= MAX_RETRIES
            /\ Len(gen.orders) + gen.failed_count = gen.i
            /\ gen.i <= NUM_ORDERS
            /\ gen.pc = "done" <=> gen.i = NUM_ORDERS)
    /\ [][gen.pc # "off" =>
            /\ gen'.attempt = gen.attempt + 1 => (gen.order = {} /\ gen'.i = gen.i)
            /\ gen'.i # gen.i =>
                /\ gen'.i = gen.i + 1
                /\ \/ /\ gen.order # {}
                      /\ gen'.orders = Append(gen.orders, ValueOf(gen.order))
                      /\ gen'.failed_count = gen.failed_count
                   \/ /\ gen.order = {}
                      /\ gen.attempt = MAX_RETRIES
                      /\ gen'.orders = gen.orders
                      /\ gen'.failed_count = gen.failed_count + 1]_vars

\* C16 witness: the first slot failed all its attempts and was counted, the
\* loop went on and every later slot got its order
C16_Witness ==
    /\ gen.pc = "done"
    /\ gen.failed_count = 1
    /\ Len(gen.orders) = NUM_ORDERS - 1
    /\ gen.orders[1].external_user_id = {Str(USER_ID_BASE + 1)}

\* transform_order has just returned job.out for the raw order job.raw
Transformed == job.stage = "transformed"
RawPrice == Get(job.raw.price, EmptyPrice)
RawAdjustments == Get(RawPrice.adjustments, <<>>)

\* the amounts of the adjustments whose type is the given one, letter case
\* apart; an entry of another type, or without type or amount, counts 0
AmountsOfType(adjustments, type) ==
    [i \in DOMAIN adjustments |->
        IF \E t \in adjustments[i].type : Upper(t) = type
        THEN Get(adjustments[i].amount, 0) ELSE 0]

\* C17: price.tax of a transformed order is the sum, rounded to 2 decimals,
\* of the amounts of all adjustments of type TAX in any letter case, and
\* price.tip the same for TIP; several entries add up, no entry gives 0, and
\* entries of other types add nothing
C17_TaxAndTipFromAdjustments ==
    Transformed =>
        /\ job.out.price.tax = Round2(SeqSum(AmountsOfType(RawAdjustments, "TAX")))
        /\ job.out.price.tip = Round2(SeqSum(AmountsOfType(RawAdjustments, "TIP")))

\* C17 witness: adjustments tax 1.005, TAX 1.00, Tip 0.25, DISCOUNT -0.50,
\* FEE 0.30, 0.70 without type and a TIP without amount give tax 2.00 and
\* tip 0.25
C17_Witness ==
    /\ Transformed
    /\ Len(RawAdjustments) = 7
    /\ \E i \in DOMAIN RawAdjustments : RawAdjustments[i].type = {"tax"}
    /\ \E i \in DOMAIN RawAdjustments : RawAdjustments[i].type = {"DISCOUNT"}
    /\ job.out.price.tax = 2000
    /\ job.out.price.tip = 250

RawUrl == Get(job.raw.url, <<>>)

\* C18: order_key is the last segment of the path of the order URL (empty
\* when the URL has no path); for an order of generate_order it is the
\* identifier of 12 characters that follows ORDERS_URL
C18_KeyIsLastPathSegment ==
    Transformed =>
        /\ job.out.order_key = LastPiece(UrlPath(RawUrl))
        /\ job.from = "generated" =>
            /\ RawUrl = ORDERS_URL \o job.out.order_key
            /\ Len(job.out.order_key) = ORDER_ID_LENGTH

\* the point that generate_coordinates makes of one draw
IsPointOf(location, draw) ==
    /\ DOMAIN location = {"type", "coordinates"}
    /\ location.type = "Point"
    /\ Len(location.coordinates) = 2
    /\ location.coordinates[1] = PRINCETON_CENTER_LON + draw.lon
    /\ location.coordinates[2] = PRINCETON_CENTER_LAT + draw.lat
    /\ location.coordinates[1] >= PRINCETON_CENTER_LON - COORDINATE_VARIATION
    /\ location.coordinates[1] <= PRINCETON_CENTER_LON + COORDINATE_VARIATION
    /\ location.coordinates[2] >= PRINCETON_CENTER_LAT - COORDINATE_VARIATION
    /\ location.coordinates[2] <= PRINCETON_CENTER_LAT + COORDINATE_VARIATION

\* C19: shipping_address.location and store.address.location of a
\* transformed order are each one GeoJSON Point [longitude, latitude] within
\* COORDINATE_VARIATION of the Princeton center in both coordinates, made of
\* the random draws alone, whatever location the raw order carries
C19_FreshPointsNearPrinceton ==
    Transformed =>
        /\ IsPointOf(job.out.shipping_address.location, job.draws.shipping)
        /\ IsPointOf(job.out.store.address.location, job.draws.store)

RawShippingAddress ==
    Get(Get(Get(job.raw.shipping, EmptyPlace).location, EmptyLocation).address,
        EmptyAddress)
RawStoreLocation == Get(Get(job.raw.store, EmptyPlace).location, EmptyLocation)
RawStoreAddress == Get(RawStoreLocation.address, EmptyAddress)

\* C19 witness: a raw order whose shipping address carries the point [0, 0]
\* comes out with a point drawn near Princeton
C19_Witness ==
    /\ Transformed
    /\ \E l \in RawShippingAddress.location : l.coordinates = <<0, 0>>
    /\ job.out.shipping_address.location.coordinates =
        <<PRINCETON_CENTER_LON + COORDINATE_VARIATION,
          PRINCETON_CENTER_LAT - COORDINATE_VARIATION>>

AddressDefaulted(out, raw, country) ==
    /\ DOMAIN out = {"line1", "city", "region", "postalCode", "countryCode",
                     "location"}
    /\ out.line1 = Get(raw.line1, "")
    /\ out.city = Get(raw.city, "")
    /\ out.region = Get(raw.region, "")
    /\ out.postalCode = Get(raw.postalCode, "")
    /\ out.countryCode = Get(raw.countryCode, country)

ProductDefaulted(out, raw) ==
    /\ DOMAIN out = {"name", "quantity", "unitPrice", "total"}
    /\ out.name = Get(raw.name, "")
    /\ out.quantity = Get(raw.quantity, 0)
    /\ out.unitPrice = Get(Get(raw.price, EmptyProductPrice).unitPrice, 0)
    /\ out.total = Get(Get(raw.price, EmptyProductPrice).total, 0)

\* the transformed order has every field of the stored schema: a field that
\* is present in the raw order is copied, a missing amount or quantity is 0,
\* a missing text is empty, but for the four texts whose default is given
OrderDefaulted(status, country, currency, schema_version) ==
    LET out == job.out
        products == Get(job.raw.products, <<>>)
    IN  /\ DOMAIN out = {"order_key", "order_completed_at", "status", "user_id",
                         "shipping_address", "store", "price", "products",
                         "schema_version"}
        /\ job.raw.url = {} => out.order_key = <<>>
        /\ out.status = Get(job.raw.orderStatus, status)
        /\ out.user_id = Get(job.raw.external_user_id, <<>>)
        /\ AddressDefaulted(out.shipping_address, RawShippingAddress, country)
        /\ DOMAIN out.store = {"name", "phoneNumber", "address"}
        /\ out.store.name = Get(RawStoreLocation.name, "")
        /\ out.store.phoneNumber = Get(RawStoreLocation.phoneNumber, "")
        /\ AddressDefaulted(out.store.address, RawStoreAddress, country)
        /\ DOMAIN out.price = {"subTotal", "tax", "tip", "total", "currency"}
        /\ out.price.subTotal = Get(RawPrice.subTotal, 0)
        /\ out.price.total = Get(RawPrice.total, 0)
        /\ RawPrice.adjustments = {} => (out.price.tax = 0 /\ out.price.tip = 0)
        /\ out.price.currency = Get(RawPrice.currency, currency)
        /\ Len(out.products) = Len(products)
        /\ \A i \in DOMAIN products : ProductDefaulted(out.products[i], products[i])
        /\ out.schema_version = Get(job.raw.schema_version, schema_version)

\* C20, as stated: whatever optional fields the raw order lacks, the
\* transformed order has every field, each missing text empty and each
\* missing amount or quantity 0
C20_MissingTextIsEmpty ==
    Transformed => OrderDefaulted("", "", "", "")

\* C20, amended: the same, but a missing orderStatus becomes "COMPLETED", a
\* missing countryCode "US", a missing currency "USD" and a missing
\* schema_version "11/08/2025"
C20_MissingFieldsDefaulted ==
    Transformed => OrderDefaulted("COMPLETED", "US", "USD", "11/08/2025")

\* C20 witness: the order with no field at all has been transformed
C20_Witness ==
    /\ Transformed
    /\ job.raw = EmptyOrder
    /\ job.out.status = "COMPLETED"
    /\ job.out.price.currency = "USD"
    /\ job.out.store.name = ""
    /\ job.out.products = <<>>

(***************************************************************************)
(* insert_orders: batches, failures and indexes                            *)
(***************************************************************************)
\* the documents of the list that insert_orders left out of the collection
NotPersisted == {i \in DOMAIN resp.orders : resp.orders[i] \notin coll}

\* C21: when insert_orders returns, every document of its list that is not
\* persisted is one the store rejects, whatever batch it was in, and every
\* document reported as failed is a document that is not persisted.
C21_OnlyRejectedDocumentsFail ==
    resp.op = "insert_orders" =>
        /\ \A i \in NotPersisted :
              ~StoreAccepts(coll, resp.indexes_before, resp.orders[i])
        /\ \A i \in DOMAIN resp.failed : resp.failed[i] \notin coll

\* C22: after insert_orders every index of the set exists, except an index
\* whose own creation fails.
C22_WholeIndexSetProvisioned ==
    resp.op = "insert_orders" =>
        \A i \in DOMAIN IndexSpecs :
            \/ IndexSpecs[i] \in indexes
            \/ CreateIndexFails(coll, indexes, IndexSpecs[i])

\* C23: an insert_orders that runs on a collection where insert_orders ran
\* before returns its inserted count, whatever create_index does, and
\* leaves the set of indexes as it found it, each index of the set at most
\* once.
C23_SecondRunKeepsIndexes ==
    (resp.op = "insert_orders" /\ resp.before # {}) =>
        /\ resp.returned = {resp.inserted}
        /\ indexes = resp.indexes_before
        /\ indexes \subseteq Range(IndexSpecs)

\* C23 witness: a second run has returned its count of 1 from a collection
\* on which the unique index cannot be built, with the indexes as before
C23_Witness ==
    /\ resp.op = "insert_orders"
    /\ \E d, e \in resp.before : d # e /\ d.order_key = e.order_key
    /\ resp.returned = {1}
    /\ resp.inserted = 1
    /\ indexes = resp.indexes_before

(***************************************************************************)
(* The Knot proxy                                                          *)
(***************************************************************************)
KnotDone == knot.pc = "done"
KnotCall == ValueOf(knot.call)
KnotOutcome == ValueOf(knot.outcome)

\* one request was sent, its Authorization header is as the call wants it,
\* and the outcome is the one the answer calls for
OneRequestPassedThrough ==
    /\ Len(knot.sent) = 1
    /\ knot.sent[1].headers["Authorization"] =
            IF NeedsAuth(KnotCall)
            THEN {<<"Basic", B64(<<"id", ":", "secret">>)>>} ELSE {}
    /\ \A a \in knot.answer :
        /\ a.status_code = 200 =>
              \A v \in a.body.json : KnotOutcome = Returns(v)
        /\ a.status_code # 200 =>
              /\ KnotOutcome.returned = {}
              /\ \E e \in KnotOutcome.raised : e.status_code = {a.status_code}

\* C24, as stated: every call of the Knot proxy sends exactly one upstream
\* request; a 200 answer gives the caller the upstream JSON value, any
\* other status fails the call with that status; the mock sync request has
\* no Authorization header and the other two have the basic-auth header.
C24_OneRequestPerCall ==
    KnotDone => OneRequestPassedThrough

\* C24, amended: the same for mock sync, and for the other two calls when
\* both credentials are configured; when one is missing, create session
\* and sync transactions send nothing and fail with status 500.
C24_OneRequestWhenConfigured ==
    KnotDone =>
        IF NeedsAuth(KnotCall) /\ ~CredentialsConfigured(knot.credentials)
        THEN /\ knot.sent = <<>>
             /\ KnotOutcome = HTTPException(500, "Knot credentials not configured")
        ELSE OneRequestPassedThrough

\* C24 witness: sync transactions got the answer 401 to its one request,
\* which carried the basic-auth header, and failed with 401
C24_Witness ==
    /\ KnotDone
    /\ KnotCall.fn = "sync_transactions_api_call"
    /\ Len(knot.sent) = 1
    /\ knot.sent[1].headers["Authorization"] # {}
    /\ \E a \in knot.answer : a.status_code = 401
    /\ \E e \in KnotOutcome.raised : e.status_code = {401}

(***************************************************************************)
(* The catalog builders                                                    *)
(***************************************************************************)
\* the catalog file of a builder that merges several queries or pages
MergedCatalog ==
    /\ scrape.pc = "saved"
    /\ queries_of(scrape.builder) > 1

SavedCatalog == ValueOf(scrape.file)

\* the non-empty names seen in a result
NamesIn(result) ==
    {n \in UNION {result[i].restaurant : i \in DOMAIN result} : n # ""}

\* the results, by index, that contain the name
ResultsWith(name) ==
    {k \in DOMAIN scrape.results : name \in NamesIn(scrape.results[k])}

\* C25: the catalog a builder saves after merging several results has
\* exactly one entry for each non-empty name seen in a result, no other
\* entry, and the entry of a name is an entry of that name in the last
\* result that contained it.
C25_OneEntryPerNameLastWins ==
    MergedCatalog =>
        LET names == UNION {NamesIn(scrape.results[k]) : k \in DOMAIN scrape.results}
        IN  /\ \A n \in names :
                Cardinality({i \in DOMAIN SavedCatalog :
                                SavedCatalog[i].restaurant = {n}}) = 1
            /\ \A i \in DOMAIN SavedCatalog :
                \E n \in names : SavedCatalog[i].restaurant = {n}
            /\ \A i \in DOMAIN SavedCatalog :
                \A n \in SavedCatalog[i].restaurant :
                    LET last == scrape.results[
                                    CHOOSE k \in ResultsWith(n) :
                                        \A j \in ResultsWith(n) : j <= k]
                    IN  \E p \in DOMAIN last : last[p] = SavedCatalog[i]

\* C25 witness: main.py saved a catalog of one entry after a first result
\* with two entries named Agricola and a later result with another entry
\* of that name and two entries without a name
C25_Witness ==
    /\ MergedCatalog
    /\ scrape.builder = "main"
    /\ Len(scrape.results[1]) = 2
    /\ NamesIn(scrape.results[1]) = {"Agricola"}
    /\ Len(scrape.results[NumQueries]) = 3
    /\ SavedCatalog = <<CatalogEntry({"Agricola"}, "11 Witherspoon St")>>

(***************************************************************************)
(* GET /orders while insert_orders is running                              *)
(***************************************************************************)
\* C26: in every answer of get_orders, also when insert_orders persisted
\* documents between its count and its find, the orders are at most
\* max(0, total - (page - 1) * page_size) many, and exactly page_size many
\* on a page that is not the last one.
C26_PageConsistentWithTotal ==
    (resp.op = "get_orders" /\ resp.pc = "done" /\ resp.status = 200) =>
        /\ Len(resp.orders) <= Max(0, resp.total - Skip(resp.page, resp.page_size))
        /\ resp.page * resp.page_size < resp.total =>
              Len(resp.orders) = resp.page_size

(***************************************************************************)
(* transform_order: the completion time and the stored price               *)
(***************************************************************************)
\* C27: order_completed_at of every transformed order is before the time
\* of the transformation and at most MAX_DAYS_AGO days before it.
C27_CompletedInThePast ==
    Transformed =>
        /\ job.out.order_completed_at < 0
        /\ job.out.order_completed_at >= 0 - MAX_DAYS_AGO * MINUTES_PER_DAY

\* C27 witness: the draw of 1 day with the offset of 23 hours 59 minutes
\* gives a time one minute before the transformation
C27_Witness ==
    /\ Transformed
    /\ job.draws.time = [days_ago |-> MIN_DAYS_AGO, hours |-> 23, minutes |-> 59]
    /\ job.out.order_completed_at = -1

\* what the stored price leaves of the total once subTotal, tax and tip are
\* taken off
PriceRemainder ==
    job.out.price.total - job.out.price.subTotal
        - job.out.price.tax - job.out.price.tip

\* the positions of the FEE entries of the generated adjustments
FeeEntries ==
    {i \in DOMAIN RawAdjustments : RawAdjustments[i].type = {"FEE"}}

OnlyEmptyFilter(name) ==
    /\ IsListResponse("get_orders")
    /\ Supplied(resp.req) = {name}
    /\ resp.req[name] = {""}

\* C28: get_orders with user_id (or status) given as the empty string
\* returns exactly the stored orders whose user_id (or status) is the empty
\* string.
C28_EmptyStringFilterApplies ==
    /\ OnlyEmptyFilter("user_id") =>
        /\ resp.total = Cardinality({d \in coll : d.user_id = ""})
        /\ \A i \in DOMAIN resp.orders : resp.orders[i].user_id = ""
    /\ OnlyEmptyFilter("status") =>
        /\ resp.total = Cardinality({d \in coll : d.status = ""})
        /\ \A i \in DOMAIN resp.orders : resp.orders[i].status = ""

\* the Monday-to-Sunday week of a day, counted from the week of day 0, a
\* Monday
WeekOf(n) == n \div 7

\* C29: with group_by=week two orders of the date range share a label only
\* if they were completed in the same Monday-to-Sunday week, and an order
\* whose label is lower than that of another order was not completed in a
\* later week than the other.
C29_WeekLabelsFollowTheWeeks ==
    (resp.op = "get_stats_by_date" /\ resp.status = 200
        /\ resp.req.group_by = "week") =>
        LET S == {d \in coll :
                    InRange(d, resp.req.start_date, resp.req.end_date)}
            labelOf(d) == DateToString("week", d.order_completed_at)
        IN  /\ \A d, e \in S :
                labelOf(d) = labelOf(e) =>
                    WeekOf(d.order_completed_at) = WeekOf(e.order_completed_at)
            /\ \A d, e \in S :
                LabelLess(labelOf(d), labelOf(e)) =>
                    WeekOf(d.order_completed_at) <= WeekOf(e.order_completed_at)

====
